---- MODULE Spec2Model ----
(***************************************************************************)
(* A model of stock_analyzer.py: the trade-table loader, the indicator     *)
(* engine (moving averages, RSI, MACD), the signal generator and the       *)
(* timing matcher.                                                         *)
(*                                                                         *)
(* Column names of the source that are not ASCII are written in English:   *)
(*   日付 Date, 買い金額 BuyAmount, 売り金額 SellAmount,                   *)
(*   ゴールデンクロス GoldenCross, デッドクロス DeadCross,                 *)
(*   買いシグナル BuySignal, 売りシグナル SellSignal,                      *)
(*   RSI_買いシグナル RSI_BuySignal, RSI_売りシグナル RSI_SellSignal,      *)
(*   MACD_買いシグナル MACD_BuySignal, MACD_売りシグナル MACD_SellSignal,  *)
(*   強い買いシグナル StrongBuySignal, 強い売りシグナル StrongSellSignal.  *)
(*                                                                         *)
(* pandas computes in float64.  The model computes in exact rationals and  *)
(* keeps what float64 adds to them: NaN, the two infinities and the sign   *)
(* of zero.  Rounding is not modelled.  The values of the MACD columns     *)
(* have denominators that are powers of 13, 27 and 10; they are kept wide, *)
(* the numerator in groups of four decimal digits and the denominator as   *)
(* the list of its factors.                                                *)
(***************************************************************************)
EXTENDS Integers, Sequences, FiniteSets, TLC

VARIABLES
    pc,             \* position of the script
    Close,          \* nikkei['Close'], in date order
    spans,          \* <<fast, slow, signal>> handed to calculate_macd
    nikkei_sorted,  \* the indicator table: a record of columns
    buy_daily,      \* daily buy notional: a function from dates to amounts
    sell_daily,     \* daily sell notional
    merged_df,      \* the joined table, a sequence of rows
    ma_match,       \* matched and mismatched amounts and rates, MA signals
    strong_match,   \* the same for the strong signals
    raw,            \* the file of the run: its columns and the bytes of its rows
    position,       \* how far the upload has been read
    data,           \* what load_data returned
    daily_trade,    \* the copy of data the daily aggregation reads
    enc,            \* the encoding selected and the encodings tried after it
    out,            \* what the page shows: messages and metrics
    names,          \* the global names the script has bound
    regime,         \* buy_on_up, buy_on_down, sell_on_up, sell_on_down
    efficiency      \* outcome of the efficiency block

indVars == <<Close, spans>>
matchVars == <<buy_daily, sell_daily, merged_df, ma_match, strong_match>>
loadVars == <<raw, position, data, daily_trade>>
runVars == <<enc, out, names, regime, efficiency>>
vars == <<pc, Close, spans, nikkei_sorted, buy_daily, sell_daily, merged_df,
          ma_match, strong_match, raw, position, data, daily_trade,
          enc, out, names, regime, efficiency>>

(***************************************************************************)
(* Bounds of the exploration.                                              *)
(***************************************************************************)
MaxBars == 5        \* longest benchmark series
MaxPrice == 4       \* closes are drawn from 1..MaxPrice

(* The windows, scaled down so that a series of MaxBars bars crosses them. *)
(* The script uses 5 and 20 (lines 297-298) and calculate_rsi's default    *)
(* window is 14 (line 643).                                                *)
nikkei_ma_short == 2
nikkei_ma_medium == 3
rsi_window == 3

(* The MACD spans <<fast, slow, signal>>: the defaults 12, 26, 9 of line   *)
(* 652, which line 673 leaves as they are.                                 *)
MacdSpans == { <<12, 26, 9>> }

CloseSeries == UNION { [1..n -> 1..MaxPrice] : n \in 0..MaxBars }

(***************************************************************************)
(* float64 values.                                                         *)
(***************************************************************************)
Abs(x) == IF x < 0 THEN -x ELSE x

RECURSIVE GCD(_, _)
GCD(a, b) == IF b = 0 THEN a ELSE GCD(b, a % b)

NaN == [k |-> "nan", n |-> 0, d |-> 1, neg |-> FALSE]
Inf(negative) == [k |-> "inf", n |-> IF negative THEN -1 ELSE 1, d |-> 1, neg |-> negative]
SignedZero(negative) == [k |-> "fin", n |-> 0, d |-> 1, neg |-> negative]

\* the finite value n/d (d > 0), in lowest terms
Fin(n, d) ==
    LET g == GCD(Abs(n), d)
    IN  [k |-> "fin", n |-> n \div g, d |-> d \div g, neg |-> n < 0]

FromInt(i) == Fin(i, 1)
IsNaN(x) == x.k = "nan"

(***************************************************************************)
(* Wide values: sign, numerator and denominator of a finite value whose    *)
(* parts do not fit an integer of the checker.  The numerator is a         *)
(* sequence of groups of four decimal digits, lowest group first, without  *)
(* leading zero groups (0 is the empty sequence); the denominator is the   *)
(* sequence of its factors with their exponents, << factor, exponent >>,   *)
(* ascending by factor.                                                    *)
(***************************************************************************)
Limb == 10000

RECURSIVE MagOf(_)
MagOf(i) == IF i = 0 THEN << >> ELSE << i % Limb >> \o MagOf(i \div Limb)

Digit(a, i) == IF i <= Len(a) THEN a[i] ELSE 0

RECURSIVE Strip(_)
Strip(a) ==
    IF a = << >> THEN a
    ELSE IF a[Len(a)] = 0 THEN Strip(SubSeq(a, 1, Len(a) - 1)) ELSE a

RECURSIVE MagAddFrom(_, _, _, _)
MagAddFrom(a, b, i, carry) ==
    IF i > Len(a) /\ i > Len(b) THEN MagOf(carry)
    ELSE LET sum == Digit(a, i) + Digit(b, i) + carry
         IN  << sum % Limb >> \o MagAddFrom(a, b, i + 1, sum \div Limb)

\* a - b from group i on, for b <= a
RECURSIVE MagSubFrom(_, _, _, _)
MagSubFrom(a, b, i, borrow) ==
    IF i > Len(a) THEN << >>
    ELSE LET diff == a[i] - Digit(b, i) - borrow
         IN  << IF diff < 0 THEN diff + Limb ELSE diff >>
                \o MagSubFrom(a, b, i + 1, IF diff < 0 THEN 1 ELSE 0)

MagLess(a, b) ==
    \/ Len(a) < Len(b)
    \/ /\ Len(a) = Len(b)
       /\ \E i \in 1..Len(a) :
             a[i] < b[i] /\ \A j \in (i + 1)..Len(a) : a[j] = b[j]

RECURSIVE MagScaleFrom(_, _, _, _)
MagScaleFrom(a, m, i, carry) ==
    IF i > Len(a) THEN MagOf(carry)
    ELSE LET prod == a[i] * m + carry
         IN  << prod % Limb >> \o MagScaleFrom(a, m, i + 1, prod \div Limb)

\* the largest number a numerator is multiplied by in one pass
MaxScale == 100000

\* a * m, for 0 <= m <= MaxScale
MagScale(a, m) ==
    IF m = 0 THEN << >> ELSE IF m = 1 THEN a ELSE MagScaleFrom(a, m, 1, 0)

\* a * b, group by group of b
RECURSIVE MagMulBy(_, _)
MagMulBy(a, b) ==
    IF b = << >> THEN << >>
    ELSE IF Len(b) = 1 THEN MagScale(a, Head(b))
    ELSE LET rest == MagMulBy(a, Tail(b))
         IN  MagAddFrom(MagScale(a, Head(b)),
                        IF rest = << >> THEN rest ELSE << 0 >> \o rest, 1, 0)

\* a * m * f^k, for f <= MaxScale and 1 <= m <= MaxScale
RECURSIVE ScalePower(_, _, _, _)
ScalePower(a, f, k, m) ==
    IF k = 0 THEN MagScale(a, m)
    ELSE IF m <= MaxScale \div f THEN ScalePower(a, f, k - 1, m * f)
    ELSE ScalePower(MagScale(a, m), f, k - 1, f)

\* the factors of two denominators together
RECURSIVE FactorsOfProduct(_, _)
FactorsOfProduct(d, e) ==
    IF d = << >> THEN e
    ELSE IF e = << >> THEN d
    ELSE IF Head(d)[1] = Head(e)[1]
         THEN << << Head(d)[1], Head(d)[2] + Head(e)[2] >> >>
                \o FactorsOfProduct(Tail(d), Tail(e))
    ELSE IF Head(d)[1] < Head(e)[1] THEN << Head(d) >> \o FactorsOfProduct(Tail(d), e)
    ELSE << Head(e) >> \o FactorsOfProduct(d, Tail(e))

\* the factors of a common multiple of two denominators
RECURSIVE CommonDenominator(_, _)
CommonDenominator(d, e) ==
    IF d = e \/ e = << >> THEN d
    ELSE IF d = << >> THEN e
    ELSE IF Head(d)[1] = Head(e)[1]
         THEN << << Head(d)[1],
                    IF Head(d)[2] < Head(e)[2] THEN Head(e)[2] ELSE Head(d)[2] >> >>
                \o CommonDenominator(Tail(d), Tail(e))
    ELSE IF Head(d)[1] < Head(e)[1] THEN << Head(d) >> \o CommonDenominator(Tail(d), e)
    ELSE << Head(e) >> \o CommonDenominator(d, Tail(e))

\* the numerator n over the denominator d, brought to the denominator L, a
\* multiple of d
RECURSIVE Lift(_, _, _)
Lift(n, d, L) ==
    IF d = L THEN n
    ELSE IF d # << >> /\ Head(d)[1] = Head(L)[1]
    THEN Lift(ScalePower(n, Head(L)[1], Head(L)[2] - Head(d)[2], 1), Tail(d), Tail(L))
    ELSE Lift(ScalePower(n, Head(L)[1], Head(L)[2], 1), d, Tail(L))

Wide(negative, n, d) == [k |-> "wide", n |-> n, d |-> d, neg |-> negative /\ n # << >>]

\* the same value, wide
Widen(x) ==
    IF x.k = "fin"
    THEN Wide(x.n < 0, MagOf(Abs(x.n)), IF x.d = 1 THEN << >> ELSE << << x.d, 1 >> >>)
    ELSE x

\* (p * x + q * y) / m, for naturals p, q, m up to MaxScale: the sum of
\* the two signed numerators over the common denominator L of x and y
Blend(p, x, q, y, m) ==
    LET L == CommonDenominator(x.d, y.d)
        a == MagScale(Lift(x.n, x.d, L), p)
        b == MagScale(Lift(y.n, y.d, L), q)
        D == IF m = 1 THEN L ELSE FactorsOfProduct(L, << << m, 1 >> >>)
    IN  IF x.neg = y.neg THEN Wide(x.neg, MagAddFrom(a, b, 1, 0), D)
        ELSE IF MagLess(a, b) THEN Wide(y.neg, Strip(MagSubFrom(b, a, 1, 0)), D)
        ELSE Wide(x.neg, Strip(MagSubFrom(a, b, 1, 0)), D)

WideAdd(x, y) == Blend(1, x, 1, y, 1)

WideMul(x, y) ==
    Wide(x.neg # y.neg,
         IF x.n = << >> \/ y.n = << >> THEN << >>
         ELSE IF Len(x.n) < Len(y.n) THEN MagMulBy(y.n, x.n) ELSE MagMulBy(x.n, y.n),
         FactorsOfProduct(x.d, y.d))

WideLess(x, y) ==
    IF x.neg # y.neg THEN x.neg
    ELSE LET L == CommonDenominator(x.d, y.d)
             a == Lift(x.n, x.d, L)
             b == Lift(y.n, y.d, L)
         IN  IF x.neg THEN MagLess(b, a) ELSE MagLess(a, b)

WideEq(x, y) ==
    LET L == CommonDenominator(x.d, y.d)
    IN  x.neg = y.neg /\ Lift(x.n, x.d, L) = Lift(y.n, y.d, L)

WideSub(x, y) == WideAdd(x, Wide(~y.neg, y.n, y.d))

\* the comparisons of two values of which one may be NaN: False with NaN
WideGt(x, y) == x.k = "wide" /\ y.k = "wide" /\ WideLess(y, x)
WideLe(x, y) == x.k = "wide" /\ y.k = "wide" /\ ~WideLess(y, x)

IsZero(x) == x.k = "fin" /\ x.n = 0

FNeg(x) ==
    CASE x.k = "nan" -> NaN
      [] x.k = "inf" -> Inf(~x.neg)
      [] OTHER -> IF x.n = 0 THEN SignedZero(~x.neg) ELSE Fin(-x.n, x.d)

FAdd(x, y) ==
    CASE x.k = "nan" \/ y.k = "nan" -> NaN
      [] x.k = "inf" /\ y.k = "inf" -> IF x.neg = y.neg THEN x ELSE NaN
      [] x.k = "inf" -> x
      [] y.k = "inf" -> y
      [] OTHER ->
            IF x.n = 0 /\ y.n = 0
            THEN SignedZero(x.neg /\ y.neg)
            ELSE LET L == (x.d \div GCD(x.d, y.d)) * y.d
                 IN  Fin(x.n * (L \div x.d) + y.n * (L \div y.d), L)

FSub(x, y) == FAdd(x, FNeg(y))

FMul(x, y) ==
    CASE x.k = "nan" \/ y.k = "nan" -> NaN
      [] x.k = "inf" \/ y.k = "inf" ->
            IF IsZero(x) \/ IsZero(y) THEN NaN ELSE Inf(x.neg # y.neg)
      [] OTHER ->
            IF x.n = 0 \/ y.n = 0
            THEN SignedZero(x.neg # y.neg)
            ELSE LET g1 == GCD(Abs(x.n), y.d)
                     g2 == GCD(Abs(y.n), x.d)
                 IN  Fin((x.n \div g1) * (y.n \div g2), (x.d \div g2) * (y.d \div g1))

\* float64 division: x/0 is an infinity, 0/0 is NaN, nothing is raised
FDiv(x, y) ==
    CASE x.k = "nan" \/ y.k = "nan" -> NaN
      [] x.k = "inf" /\ y.k = "inf" -> NaN
      [] x.k = "inf" -> Inf(x.neg # y.neg)
      [] y.k = "inf" -> SignedZero(x.neg # y.neg)
      [] y.n = 0 -> IF x.n = 0 THEN NaN ELSE Inf(x.neg # y.neg)
      [] OTHER ->
            IF x.n = 0
            THEN SignedZero(x.neg # y.neg)
            ELSE FMul(x, Fin(IF y.n < 0 THEN -y.d ELSE y.d, Abs(y.n)))

\* comparisons: any comparison with NaN is False
FLt(x, y) ==
    CASE x.k = "nan" \/ y.k = "nan" -> FALSE
      [] x.k = "inf" /\ y.k = "inf" -> x.neg /\ ~y.neg
      [] x.k = "inf" -> x.neg
      [] y.k = "inf" -> ~y.neg
      [] OTHER -> LET L == (x.d \div GCD(x.d, y.d)) * y.d
                  IN  x.n * (L \div x.d) < y.n * (L \div y.d)

FGt(x, y) == FLt(y, x)

FEq(x, y) ==
    /\ x.k # "nan" /\ y.k # "nan"
    /\ x.k = y.k /\ x.n = y.n /\ x.d = y.d

FLe(x, y) == FLt(x, y) \/ FEq(x, y)
FGe(x, y) == FLe(y, x)

(***************************************************************************)
(* Series operations of pandas.  A column is a sequence, one entry a bar.  *)
(***************************************************************************)
\* a column as the sequence of its values, each computed once
Column(f) == f \o << >>

ToFloat(col) == [i \in 1..Len(col) |-> FromInt(col[i])]

\* Series.shift(1)
Shift(col) == [i \in 1..Len(col) |-> IF i = 1 THEN NaN ELSE col[i - 1]]

\* Series.diff()
Diff(col) == [i \in 1..Len(col) |-> FSub(col[i], Shift(col)[i])]

RECURSIVE WindowSum(_, _, _)
WindowSum(col, lo, hi) ==
    IF lo > hi THEN SignedZero(FALSE) ELSE FAdd(WindowSum(col, lo, hi - 1), col[hi])

\* Series.rolling(window=w).mean(): NaN until the window holds w values
RollingMean(col, w) ==
    [i \in 1..Len(col) |->
        IF i < w \/ \E j \in (i - w + 1)..i : IsNaN(col[j])
        THEN NaN
        ELSE FDiv(WindowSum(col, i - w + 1, i), FromInt(w))]

\* an exponential average of wide values with the smoothing factor 1/span
RECURSIVE EwmWilder(_, _, _)
EwmWilder(col, span, n) ==
    IF n = 0 THEN << >>
    ELSE IF n = 1 THEN << col[1] >>
    ELSE LET prev == EwmWilder(col, span, n - 1)
         IN  Append(prev, Blend(span - 1, prev[n - 1], 1, col[n], span))

\* Series.ewm(span=span, adjust=False).mean(), of wide values: the first
\* value, then (1 - alpha) * previous + alpha * value with alpha =
\* 2/(span + 1), which is ((span - 1) * previous + 2 * value) / (span + 1)
RECURSIVE Ewm(_, _, _)
Ewm(col, span, n) ==
    IF n = 0 THEN << >>
    ELSE IF n = 1 THEN << col[1] >>
    ELSE LET prev == Ewm(col, span, n - 1)
         IN  Append(prev, Blend(span - 1, prev[n - 1], 2, col[n], span + 1))

(***************************************************************************)
(* The trade record normalizer.  A cell of the parsed file is its text, a  *)
(* sequence of characters; a value of the table is a text, a number, a     *)
(* date or null (NaN, NaT).  The fields, in the order of line 112:         *)
(*   日付 Date, 銘柄 Name, コード Code, 市場 Market, 取引種別 Type,        *)
(*   期間 Period, 口座 Account, 課税区分 TaxCategory, 数量 Quantity,       *)
(*   単価 UnitPrice, 手数料 Fee, 税額 Tax, 受渡日 SettlementDate,          *)
(*   受渡金額 SettlementAmount.                                            *)
(***************************************************************************)
Str(chars) == [t |-> "str", s |-> chars, n |-> 0]
Num(i) == [t |-> "num", s |-> << >>, n |-> i]
DateOf(y, m, d) == [t |-> "date", s |-> << >>, n |-> (y * 100 + m) * 100 + d]
Null == [t |-> "null", s |-> << >>, n |-> 0]

\* what load_data returns when it fails, and what is not there yet
None == [loaded |-> FALSE, columns |-> << >>, rows |-> << >>]
\* a table that was loaded: its column names in order and its rows
Table(columns, rows) == [loaded |-> TRUE, columns |-> columns, rows |-> rows]

DigitValue ==
    [c \in {"0", "1", "2", "3", "4", "5", "6", "7", "8", "9"} |->
        CASE c = "0" -> 0 [] c = "1" -> 1 [] c = "2" -> 2 [] c = "3" -> 3
          [] c = "4" -> 4 [] c = "5" -> 5 [] c = "6" -> 6 [] c = "7" -> 7
          [] c = "8" -> 8 [] OTHER -> 9]

AllDigits(chars) ==
    Len(chars) > 0 /\ \A i \in 1..Len(chars) : chars[i] \in DOMAIN DigitValue

RECURSIVE ParseInt(_, _)
ParseInt(chars, n) ==
    IF n = 0 THEN 0 ELSE 10 * ParseInt(chars, n - 1) + DigitValue[chars[n]]

\* str.replace(',', '')
StripCommas(chars) == SelectSeq(chars, LAMBDA c : c # ",")

\* The characters of a cell are digits, the thousands separator, the slash
\* of a date and the letter x, which is part of no number (not e, not a
\* sign, not a point, no spelling of NaN or of infinity).
\* pd.to_numeric(text, errors='coerce') for such a text: a number
\* when the text is all digits, else NaN
to_numeric(chars) == IF AllDigits(chars) THEN Num(ParseInt(chars, Len(chars))) ELSE Null

\* pd.to_datetime(text, format='%Y/%m/%d', errors='coerce') for a text over
\* these characters: four digits of year, one or two of month and of day, a day
\* the month has and a date a Timestamp holds (1677-09-22 to 2262-04-11),
\* else NaT
to_datetime(chars) ==
    LET sl == { i \in 1..Len(chars) : chars[i] = "/" }
        LeapYear(y) == y % 4 = 0 /\ (y % 100 # 0 \/ y % 400 = 0)
        DaysInMonth(y, m) ==
            IF m = 2 THEN (IF LeapYear(y) THEN 29 ELSE 28)
            ELSE IF m \in {4, 6, 9, 11} THEN 30 ELSE 31
    IN  IF Cardinality(sl) # 2 THEN Null
        ELSE LET a == CHOOSE i \in sl : \A j \in sl : i <= j
                 b == CHOOSE i \in sl : \A j \in sl : i >= j
                 y == SubSeq(chars, 1, a - 1)
                 m == SubSeq(chars, a + 1, b - 1)
                 d == SubSeq(chars, b + 1, Len(chars))
             IN  IF /\ AllDigits(y) /\ Len(y) = 4
                    /\ AllDigits(m) /\ Len(m) <= 2
                    /\ AllDigits(d) /\ Len(d) <= 2
                    /\ ParseInt(m, Len(m)) \in 1..12
                    /\ ParseInt(d, Len(d)) \in 1..DaysInMonth(ParseInt(y, 4), ParseInt(m, Len(m)))
                    /\ DateOf(ParseInt(y, 4), ParseInt(m, Len(m)), ParseInt(d, Len(d))).n
                            \in 16770922..22620411
                 THEN DateOf(ParseInt(y, 4), ParseInt(m, Len(m)), ParseInt(d, Len(d)))
                 ELSE Null

\* lines 94 and 97, pd.read_csv on the cells of a file: a column whose
\* cells are all integers is a column of numbers, any other column keeps
\* the text of every cell
read_csv(table) ==
    LET rows == table.rows
        integers(j) == \A r \in 1..Len(rows) : AllDigits(rows[r][j])
    IN  [r \in 1..Len(rows) |->
            [j \in 1..table.ncols |->
                IF integers(j)
                THEN Num(ParseInt(rows[r][j], Len(rows[r][j])))
                ELSE Str(rows[r][j])]]

\* line 112: the names given to the columns, by position
FieldNames ==
    << "Date", "Name", "Code", "Market", "Type", "Period", "Account", "TaxCategory",
       "Quantity", "UnitPrice", "Fee", "Tax", "SettlementDate", "SettlementAmount" >>

\* line 106: the column indices converted to numbers, counted from 0
numeric_cols == << 7, 8, 9, 10, 12 >>

Position(name) == CHOOSE j \in 1..Len(FieldNames) : FieldNames[j] = name

\* a loader that names as many columns as the file has and returns the rest
load_data_partial(table) ==
    LET n == table.ncols
        rows == table.rows
        k == IF n < Len(FieldNames) THEN n ELSE Len(FieldNames)
        cell(r, j) ==
            IF j = 1 THEN to_datetime(rows[r][j])
            ELSE IF \E c \in 1..Len(numeric_cols) : numeric_cols[c] = j - 1
                 THEN to_numeric(StripCommas(rows[r][j]))
                 ELSE read_csv(table)[r][j]
    IN  Table(SubSeq(FieldNames, 1, k),
              [r \in 1..Len(rows) |->
                  [f \in {FieldNames[j] : j \in 1..k} |-> cell(r, Position(f))]])

\* lines 117-118: the message of a load that failed
LoadMessages(df) == IF df.loaded THEN {} ELSE {"load_error"}

\* lines 92-115, on the cells of the file: None when the names do not fit
\* the columns (the assignment of line 112 raises), else the table.  The
\* date format has slashes and astype(str) gives an integer its digits
\* back, so both conversions see a column of integers as its texts.
load_data(table) ==
    LET n == table.ncols
        rows == table.rows
        df == read_csv(table)
        dated == [r \in 1..Len(rows) |->
                    [j \in 1..n |->
                        IF j = 1 THEN to_datetime(rows[r][j]) ELSE df[r][j]]]
        coerced == [r \in 1..Len(rows) |->
                    [j \in 1..n |->
                        IF \E c \in 1..Len(numeric_cols) :
                                numeric_cols[c] = j - 1 /\ numeric_cols[c] < n
                        THEN to_numeric(StripCommas(rows[r][j]))
                        ELSE dated[r][j]]]
    IN  IF n # Len(FieldNames)
        THEN None
        ELSE Table(FieldNames, [r \in 1..Len(rows) |->
                [f \in {FieldNames[j] : j \in 1..n} |-> coerced[r][Position(f)]]])

\* lines 220-221: pd.to_numeric(column, errors='coerce') on every value of
\* the amounts
DailyTradeOf(df) ==
    Table(df.columns, [r \in 1..Len(df.rows) |->
        [df.rows[r] EXCEPT
            !.SettlementAmount = IF @.t = "str" THEN to_numeric(@.s) ELSE @]])

\* the transaction types of lines 224-225: 株式現物買 and 株式現物売.  A
\* character outside ASCII is written as the name of its code point.
BuyType == << "U+682A", "U+5F0F", "U+73FE", "U+7269", "U+8CB7" >>
SellType == << "U+682A", "U+5F0F", "U+73FE", "U+7269", "U+58F2" >>

\* Series.sum() skips NaN
AmountOf(row) == IF row.SettlementAmount.t = "num" THEN row.SettlementAmount.n ELSE 0

\* groupby(date).sum() that keeps the last amount of a date
RECURSIVE GroupLast(_, _, _)
GroupLast(rows, type, n) ==
    IF n = 0 THEN << >>
    ELSE LET acc == GroupLast(rows, type, n - 1)
             row == rows[n]
         IN  IF row.Type # Str(type) \/ row.Date.t # "date"
             THEN acc
             ELSE IF \E k \in 1..Len(acc) : acc[k].Date = row.Date.n
                  THEN [k \in 1..Len(acc) |->
                          IF acc[k].Date = row.Date.n
                          THEN [acc[k] EXCEPT !.Amount = AmountOf(row)]
                          ELSE acc[k]]
                  ELSE SelectSeq(acc, LAMBDA g : g.Date < row.Date.n)
                        \o << [Date |-> row.Date.n, Amount |-> AmountOf(row)] >>
                        \o SelectSeq(acc, LAMBDA g : g.Date > row.Date.n)

\* lines 224-225: the rows of one transaction type, grouped by the date of
\* 日付 (rows with NaT fall out of the groups), the amounts of a group
\* summed; the groups in the order of their dates
RECURSIVE GroupSums(_, _, _)
GroupSums(rows, type, n) ==
    IF n = 0 THEN << >>
    ELSE LET acc == GroupSums(rows, type, n - 1)
             row == rows[n]
         IN  IF row.Type # Str(type) \/ row.Date.t # "date"
             THEN acc
             ELSE IF \E k \in 1..Len(acc) : acc[k].Date = row.Date.n
                  THEN [k \in 1..Len(acc) |->
                          IF acc[k].Date = row.Date.n
                          THEN [acc[k] EXCEPT !.Amount = @ + AmountOf(row)]
                          ELSE acc[k]]
                  ELSE SelectSeq(acc, LAMBDA g : g.Date < row.Date.n)
                        \o << [Date |-> row.Date.n, Amount |-> AmountOf(row)] >>
                        \o SelectSeq(acc, LAMBDA g : g.Date > row.Date.n)

\* the Series of the groups: date -> sum
DailySeries(rows, type) ==
    LET g == GroupSums(rows, type, Len(rows))
    IN  [d \in {g[k].Date : k \in 1..Len(g)} |->
            g[CHOOSE k \in 1..Len(g) : g[k].Date = d].Amount]

\* a guard that asks only for rows, not for a date among them
HasRows(df) == Len(df.rows) > 0

\* lines 208-211: some trade date is not NaT
HasDateRange(df) == \E r \in 1..Len(df.rows) : df.rows[r].Date.t = "date"

(***************************************************************************)
(* Indicator engine and signal generator.                                  *)
(***************************************************************************)
\* a trend table whose signals fire on every day the averages are apart,
\* not only on the day they cross
TrendTableLevel(close) ==
    LET c == ToFloat(close)
        MA_short == RollingMean(c, nikkei_ma_short)
        MA_medium == RollingMean(c, nikkei_ma_medium)
        GoldenCross == [i \in 1..Len(c) |-> FGt(MA_short[i], MA_medium[i])]
        DeadCross == [i \in 1..Len(c) |-> FLt(MA_short[i], MA_medium[i])]
    IN  [Close |-> c, MA_short |-> MA_short, MA_medium |-> MA_medium,
         GoldenCross |-> GoldenCross, DeadCross |-> DeadCross,
         BuySignal |-> GoldenCross, SellSignal |-> DeadCross]

\* lines 301-315: moving averages and their crossover signals
TrendTable(close) ==
    LET c == ToFloat(close)
        MA_short == RollingMean(c, nikkei_ma_short)
        MA_medium == RollingMean(c, nikkei_ma_medium)
        prev_short == Shift(MA_short)
        prev_medium == Shift(MA_medium)
        GoldenCross == [i \in 1..Len(c) |->
            FGt(MA_short[i], MA_medium[i]) /\ FLe(prev_short[i], prev_medium[i])]
        DeadCross == [i \in 1..Len(c) |->
            FLt(MA_short[i], MA_medium[i]) /\ FGe(prev_short[i], prev_medium[i])]
    IN  [Close |-> c, MA_short |-> MA_short, MA_medium |-> MA_medium,
         GoldenCross |-> GoldenCross, DeadCross |-> DeadCross,
         BuySignal |-> GoldenCross, SellSignal |-> DeadCross]

\* an RSI whose average loss keeps its negative sign
calculate_rsi_signed(prices, window) ==
    LET delta == Diff(prices)
        zero == FromInt(0)
        up == [i \in 1..Len(prices) |-> IF FGt(delta[i], zero) THEN delta[i] ELSE zero]
        down == [i \in 1..Len(prices) |-> IF FLt(delta[i], zero) THEN delta[i] ELSE zero]
        gain == RollingMean(up, window)
        loss == RollingMean(down, window)
        rs == [i \in 1..Len(prices) |-> FDiv(gain[i], loss[i])]
    IN  [i \in 1..Len(prices) |->
            FSub(FromInt(100), FDiv(FromInt(100), FAdd(FromInt(1), rs[i])))]

\* lines 643-650
calculate_rsi(prices, window) ==
    LET delta == Diff(prices)
        zero == FromInt(0)
        up == [i \in 1..Len(prices) |-> IF FGt(delta[i], zero) THEN delta[i] ELSE zero]
        down == [i \in 1..Len(prices) |-> IF FLt(delta[i], zero) THEN delta[i] ELSE zero]
        gain == RollingMean(up, window)
        meandown == RollingMean(down, window)
        loss == [i \in 1..Len(prices) |-> FNeg(meandown[i])]
        rs == [i \in 1..Len(prices) |-> FDiv(gain[i], loss[i])]
    IN  [i \in 1..Len(prices) |->
            FSub(FromInt(100), FDiv(FromInt(100), FAdd(FromInt(1), rs[i])))]

\* lines 662-664: the histogram, and the three series returned
MacdResult(macd_line, signal_line) ==
    << macd_line, signal_line,
       Column([i \in 1..Len(macd_line) |-> WideSub(macd_line[i], signal_line[i])]) >>

\* line 661: the signal line of a MACD line
MacdWithSignal(macd_line, signal) ==
    MacdResult(macd_line, Ewm(macd_line, signal, Len(macd_line)))

\* line 660
MacdLine(ema_fast, ema_slow) ==
    Column([i \in 1..Len(ema_fast) |-> WideSub(ema_fast[i], ema_slow[i])])

\* the prices as wide values
WidePrices(prices) == Column([i \in 1..Len(prices) |-> Widen(prices[i])])

\* lines 652-664
calculate_macd(prices, fast, slow, signal) ==
    MacdWithSignal(MacdLine(Ewm(WidePrices(prices), fast, Len(prices)),
                            Ewm(WidePrices(prices), slow, Len(prices))),
                   signal)

\* a composite that fires when any one family fires
StrongAnyOne(ma, rsi, macd) ==
    [i \in 1..Len(ma) |-> ma[i] \/ rsi[i] \/ macd[i]]

\* a composite that needs the MA signal among the two
StrongWithMA(ma, rsi, macd) ==
    [i \in 1..Len(ma) |-> (ma[i] /\ rsi[i]) \/ (ma[i] /\ macd[i])]

\* lines 684-695: the pairwise OR of the three family signals
StrongSignal(ma, rsi, macd) ==
    [i \in 1..Len(ma) |->
        (ma[i] /\ rsi[i]) \/ (ma[i] /\ macd[i]) \/ (rsi[i] /\ macd[i])]

\* RSI signals that fire on every day spent beyond the threshold
SignalColumnsLevel(RSI, MACD, Signal) ==
    LET prev_macd == Shift(MACD)
        prev_signal == Shift(Signal)
    IN  [RSI_BuySignal |-> [i \in 1..Len(RSI) |-> FLt(RSI[i], FromInt(30))],
         RSI_SellSignal |-> [i \in 1..Len(RSI) |-> FGt(RSI[i], FromInt(70))],
         MACD_BuySignal |-> [i \in 1..Len(RSI) |->
            WideGt(MACD[i], Signal[i]) /\ WideLe(prev_macd[i], prev_signal[i])],
         MACD_SellSignal |-> [i \in 1..Len(RSI) |->
            WideGt(Signal[i], MACD[i]) /\ WideLe(prev_signal[i], prev_macd[i])]]

\* lines 676-682: threshold and crossover signals of RSI and MACD
SignalColumns(RSI, MACD, Signal) ==
    LET prev_rsi == Shift(RSI)
        prev_macd == Shift(MACD)
        prev_signal == Shift(Signal)
    IN  [RSI_BuySignal |-> [i \in 1..Len(RSI) |->
            FLt(RSI[i], FromInt(30)) /\ FGe(prev_rsi[i], FromInt(30))],
         RSI_SellSignal |-> [i \in 1..Len(RSI) |->
            FGt(RSI[i], FromInt(70)) /\ FLe(prev_rsi[i], FromInt(70))],
         MACD_BuySignal |-> [i \in 1..Len(RSI) |->
            WideGt(MACD[i], Signal[i]) /\ WideLe(prev_macd[i], prev_signal[i])],
         MACD_SellSignal |-> [i \in 1..Len(RSI) |->
            WideGt(Signal[i], MACD[i]) /\ WideLe(prev_signal[i], prev_macd[i])]]

\* lines 684-695
StrongColumns(t) ==
    [StrongBuySignal |-> StrongSignal(t.BuySignal, t.RSI_BuySignal, t.MACD_BuySignal),
     StrongSellSignal |-> StrongSignal(t.SellSignal, t.RSI_SellSignal, t.MACD_SellSignal)]

\* lines 670-673: the table with the RSI and MACD columns
WithIndicators(t, rsi, m) ==
    [RSI |-> rsi, MACD |-> m[1], Signal |-> m[2], Histogram |-> m[3]] @@ t

\* lines 677-682: the table with the signal columns
WithSignalColumns(t) == SignalColumns(t.RSI, t.MACD, t.Signal) @@ t

\* lines 685-695: the table with the composite columns
WithStrongColumns(t) == StrongColumns(t) @@ t

\* lines 669-695: the columns added to the table after the trend analysis
IndicatorTable(t, sp) ==
    WithStrongColumns(
        WithSignalColumns(
            WithIndicators(t, calculate_rsi(t.Close, rsi_window),
                           calculate_macd(t.Close, sp[1], sp[2], sp[3]))))

(***************************************************************************)
(* The run of the script over a benchmark series.                          *)
(***************************************************************************)
NoTable == [Close |-> << >>]

NoMatch == [matched_buys |-> 0]

NoEncoding == [option |-> "", pressed |-> FALSE, i |-> 0, tried |-> << >>]
NoRegime == [bound |-> FALSE, buy_on_up |-> 0, buy_on_down |-> 0,
             sell_on_up |-> 0, sell_on_down |-> 0]
NoScore == [k |-> "none", v |-> NaN]

\* nothing shown, no name bound
RunIdle ==
    /\ enc = NoEncoding
    /\ out = {}
    /\ names = {}
    /\ regime = NoRegime
    /\ efficiency = NoScore

\* no file read yet
LoadIdle ==
    /\ raw = [ncols |-> 0, rows |-> << >>, long |-> FALSE]
    /\ position = 0
    /\ data = None
    /\ daily_trade = None

\* nothing joined and nothing matched yet
MatchIdle ==
    /\ buy_daily = << >>
    /\ sell_daily = << >>
    /\ merged_df = << >>
    /\ ma_match = NoMatch
    /\ strong_match = NoMatch

InitInd ==
    /\ pc = "download"
    /\ Close = << >>
    /\ spans = << >>
    /\ nikkei_sorted = NoTable
    /\ MatchIdle
    /\ LoadIdle
    /\ RunIdle

\* line 217: the benchmark series is whatever the data source returns
Download ==
    /\ pc = "download"
    /\ \E s \in CloseSeries, sp \in MacdSpans :
          /\ Close' = s
          /\ spans' = sp
    /\ pc' = "trend"
    /\ UNCHANGED <<nikkei_sorted, matchVars, loadVars, runVars>>

Trend ==
    /\ pc = "trend"
    /\ nikkei_sorted' = TrendTable(Close)
    /\ pc' = "indicators"
    /\ UNCHANGED <<indVars, matchVars, loadVars, runVars>>

Indicators ==
    /\ pc = "indicators"
    /\ nikkei_sorted' = IndicatorTable(nikkei_sorted, spans)
    /\ pc' = "done"
    /\ UNCHANGED <<indVars, matchVars, loadVars, runVars>>

NextInd == Download \/ Trend \/ Indicators

SpecInd == InitInd /\ [][NextInd]_vars

(***************************************************************************)
(* The composite signal over arbitrary family signals: lines 684-695 read  *)
(* six boolean columns, drawn here from all their combinations.            *)
(***************************************************************************)
MaxSignalRows == 2

InitStrong ==
    /\ pc = "strong"
    /\ Close = << >>
    /\ spans = << >>
    /\ \E b1 \in UNION { [1..n -> BOOLEAN] : n \in 0..MaxSignalRows } :
        \E b2, b3, s1, s2, s3 \in [1..Len(b1) -> BOOLEAN] :
            nikkei_sorted = [BuySignal |-> b1, RSI_BuySignal |-> b2, MACD_BuySignal |-> b3,
                             SellSignal |-> s1, RSI_SellSignal |-> s2, MACD_SellSignal |-> s3]
    /\ MatchIdle
    /\ LoadIdle
    /\ RunIdle

Strong ==
    /\ pc = "strong"
    /\ nikkei_sorted' = StrongColumns(nikkei_sorted) @@ nikkei_sorted
    /\ pc' = "done"
    /\ UNCHANGED <<indVars, matchVars, loadVars, runVars>>

NextStrong == Strong

SpecStrong == InitStrong /\ [][NextStrong]_vars

(***************************************************************************)
(* Timing matcher.  Dates are day numbers.                                 *)
(***************************************************************************)
signal_window == 7

\* The days of DaySets lie around two signals three days apart: with a signal on day 0
\* the window ends on day 7; day 8 is outside it and inside the window of
\* day 3, which ends on day 10; day 11 is outside both.
MaxSignalBars == 2      \* bars of the benchmark table
MaxTradeDays == 2       \* days with trades

RECURSIVE SortedSeq(_)
SortedSeq(S) ==
    IF S = {} THEN << >>
    ELSE LET m == CHOOSE x \in S : \A y \in S : x <= y
         IN  << m >> \o SortedSeq(S \ {m})

\* lines 228-250: the outer join of the benchmark dates with the two daily
\* series, in date order, amounts missing on a day filled with 0
MergedDf(index, buys, sells) ==
    LET dates == SortedSeq({index[i] : i \in 1..Len(index)}
                            \cup DOMAIN buys \cup DOMAIN sells)
    IN  [i \in 1..Len(dates) |->
            [Date |-> dates[i],
             BuyAmount |-> IF dates[i] \in DOMAIN buys THEN buys[dates[i]] ELSE 0,
             SellAmount |-> IF dates[i] \in DOMAIN sells THEN sells[dates[i]] ELSE 0]]

\* lines 406-407: the dates of the rows whose signal column is True
RECURSIVE SignalDates(_, _, _)
SignalDates(index, signal, n) ==
    IF n = 0 THEN << >>
    ELSE SignalDates(index, signal, n - 1)
            \o (IF signal[n] THEN << index[n] >> ELSE << >>)

\* lines 413-417: every signal date contributes the 2*signal_window+1 dates
\* around it to the list, duplicates included
RECURSIVE ValidDates(_, _)
ValidDates(signal_dates, n) ==
    IF n = 0 THEN << >>
    ELSE ValidDates(signal_dates, n - 1)
            \o [j \in 1..(2 * signal_window + 1) |->
                    signal_dates[n] + (j - 1 - signal_window)]

\* Series.isin(list)
IsIn(x, list) == \E j \in 1..Len(list) : list[j] = x

\* merged_df[mask][column].sum()
RECURSIVE SumWhere(_, _, _, _)
SumWhere(df, column, mask, n) ==
    IF n = 0 THEN 0
    ELSE SumWhere(df, column, mask, n - 1) + (IF mask[n] THEN df[n][column] ELSE 0)

\* the notional counted once for every window of the list a day falls in
RECURSIVE MatchedPerWindow(_, _, _)
MatchedPerWindow(df, column, valid) ==
    IF valid = << >> THEN 0
    ELSE MatchedPerWindow(df, column, Tail(valid))
            + SumWhere(df, column, [i \in 1..Len(df) |-> df[i].Date = Head(valid)], Len(df))

\* lines 429-430: the notional inside and outside the listed dates
Matched(df, column, valid) ==
    SumWhere(df, column, [i \in 1..Len(df) |-> IsIn(df[i].Date, valid)], Len(df))

Mismatched(df, column, valid) ==
    SumWhere(df, column, [i \in 1..Len(df) |-> ~IsIn(df[i].Date, valid)], Len(df))

\* a rate that divides whatever the total
UnguardedRate(matched, total) ==
    FMul(FDiv(FromInt(matched), FromInt(total)), FromInt(100))

\* lines 445-447: a rate in percent, 0 when there is nothing to divide by
MatchRate(matched, total) ==
    IF total > 0
    THEN FMul(FDiv(FromInt(matched), FromInt(total)), FromInt(100))
    ELSE FromInt(0)

\* lines 402-447 for the MA signals, lines 897-937 for the strong signals
MatchResult(df, index, buy_signal, sell_signal) ==
    LET valid_buy_dates ==
            LET d == SignalDates(index, buy_signal, Len(index)) IN ValidDates(d, Len(d))
        valid_sell_dates ==
            LET d == SignalDates(index, sell_signal, Len(index)) IN ValidDates(d, Len(d))
        matched_buys == Matched(df, "BuyAmount", valid_buy_dates)
        mismatched_buys == Mismatched(df, "BuyAmount", valid_buy_dates)
        matched_sells == Matched(df, "SellAmount", valid_sell_dates)
        mismatched_sells == Mismatched(df, "SellAmount", valid_sell_dates)
        total_buys == matched_buys + mismatched_buys
        total_sells == matched_sells + mismatched_sells
    IN  [matched_buys |-> matched_buys, mismatched_buys |-> mismatched_buys,
         matched_sells |-> matched_sells, mismatched_sells |-> mismatched_sells,
         buy_match_rate |-> MatchRate(matched_buys, total_buys),
         sell_match_rate |-> MatchRate(matched_sells, total_sells),
         overall_match_rate |->
            MatchRate(matched_buys + matched_sells, total_buys + total_sells)]

DaySets(n) == { S \in SUBSET {0, 3, 7, 8, 11} : Cardinality(S) <= n }

\* a bar of the drawn benchmark table carries no signal or one; a day with
\* trades has a buy, or a buy and a larger sell
InitMatch ==
    /\ pc = "join"
    /\ Close = << >>
    /\ spans = << >>
    /\ \E B \in DaySets(MaxSignalBars) :
        \E sig \in [B -> { {}, {"buy"}, {"sell"}, {"strong_buy"}, {"strong_sell"} }] :
            LET index == SortedSeq(B)
            IN  nikkei_sorted =
                    [Index |-> index,
                     BuySignal |-> [i \in 1..Len(index) |-> "buy" \in sig[index[i]]],
                     SellSignal |-> [i \in 1..Len(index) |-> "sell" \in sig[index[i]]],
                     StrongBuySignal |-> [i \in 1..Len(index) |-> "strong_buy" \in sig[index[i]]],
                     StrongSellSignal |-> [i \in 1..Len(index) |-> "strong_sell" \in sig[index[i]]]]
    /\ \E D \in DaySets(MaxTradeDays) :
        \E tr \in [D -> { [buy |-> 1, sell |-> 0], [buy |-> 2, sell |-> 3] }] :
            /\ buy_daily = [d \in {x \in D : tr[x].buy > 0} |-> tr[d].buy]
            /\ sell_daily = [d \in {x \in D : tr[x].sell > 0} |-> tr[d].sell]
    /\ merged_df = << >>
    /\ ma_match = NoMatch
    /\ strong_match = NoMatch
    /\ LoadIdle
    /\ RunIdle

Join ==
    /\ pc = "join"
    /\ merged_df' = MergedDf(nikkei_sorted.Index, buy_daily, sell_daily)
    /\ pc' = "match"
    /\ UNCHANGED <<indVars, nikkei_sorted, buy_daily, sell_daily, ma_match, strong_match, loadVars, runVars>>

MatchMA ==
    /\ pc = "match"
    /\ ma_match' = MatchResult(merged_df, nikkei_sorted.Index,
                                nikkei_sorted.BuySignal, nikkei_sorted.SellSignal)
    /\ pc' = "strong_match"
    /\ UNCHANGED <<indVars, nikkei_sorted, buy_daily, sell_daily, merged_df, strong_match, loadVars, runVars>>

MatchStrong ==
    /\ pc = "strong_match"
    /\ strong_match' = MatchResult(merged_df, nikkei_sorted.Index,
                                    nikkei_sorted.StrongBuySignal,
                                    nikkei_sorted.StrongSellSignal)
    /\ pc' = "done"
    /\ UNCHANGED <<indVars, nikkei_sorted, buy_daily, sell_daily, merged_df, ma_match, loadVars, runVars>>

NextMatch == Join \/ MatchMA \/ MatchStrong

SpecMatch == InitMatch /\ [][NextMatch]_vars

(***************************************************************************)
(* Text and bytes.  An upload is bytes; read_csv (lines 94 and 97) decodes *)
(* them with the Python codec that `encoding` names, and the text it       *)
(* parses is what that codec makes of the bytes.  A character is a string: *)
(* an ASCII character is itself, any other is the name of its code point,  *)
(* "U+682A".  The two-byte tables hold the codes the texts of the files    *)
(* reach under some codec and a few more; a code in the range of a table   *)
(* that the table does not hold cannot be evaluated, it is never taken for *)
(* undecodable.                                                            *)
(***************************************************************************)
\* the code points of the characters of a cell
Ascii ==
    [c \in DOMAIN DigitValue |-> 48 + DigitValue[c]]
        @@ ("," :> 44) @@ ("/" :> 47) @@ ("x" :> 120)

\* the code points of the other characters the files are written with:
\* 株 式 現 物 買 売 and ㈱
Ord ==
    Ascii @@ ("U+682A" :> 26666) @@ ("U+5F0F" :> 24335) @@ ("U+73FE" :> 29694)
          @@ ("U+7269" :> 29289) @@ ("U+8CB7" :> 36023) @@ ("U+58F2" :> 22770)
          @@ ("U+3231" :> 12849)

\* the character of a code point: the name of one outside ASCII has at
\* least four hexadecimal digits
Chr(cp) ==
    LET HexDigits ==
            << "0", "1", "2", "3", "4", "5", "6", "7",
               "8", "9", "A", "B", "C", "D", "E", "F" >>
        HexDigit(place) == HexDigits[((cp \div place) % 16) + 1]
    IN  IF \E c \in DOMAIN Ascii : Ascii[c] = cp
        THEN CHOOSE c \in DOMAIN Ascii : Ascii[c] = cp
        ELSE "U+" \o (IF cp >= 1048576 THEN HexDigit(1048576) ELSE "")
                  \o (IF cp >= 65536 THEN HexDigit(65536) ELSE "")
                  \o HexDigit(4096) \o HexDigit(256) \o HexDigit(16) \o HexDigit(1)

\* JIS X 0208, from the two bytes of a character's code to its code point:
\* 株 式 現 物 買 売, and 譬 蠑 冗 樟 迚 雋 螢 繹, which Shift_JIS makes of
\* the UTF-8 bytes of the former and of ㈱
Jisx0208 ==
    (<< 51, 116 >> :> 26666) @@ (<< 60, 48 >> :> 24335) @@ (<< 56, 61 >> :> 29694)
        @@ (<< 74, 42 >> :> 29289) @@ (<< 71, 99 >> :> 36023) @@ (<< 71, 100 >> :> 22770)
        @@ (<< 108, 34 >> :> 35692) @@ (<< 106, 62 >> :> 34833) @@ (<< 62, 105 >> :> 20887)
        @@ (<< 62, 64 >> :> 27167) @@ (<< 109, 105 >> :> 36826) @@ (<< 112, 52 >> :> 38603)
        @@ (<< 106, 37 >> :> 34722) @@ (<< 101, 104 >> :> 32377)

\* the extension of cp932 to JIS X 0208, by the two bytes: the codes of
\* row 0x81 it maps otherwise (＼ ～ ∥ － ￠ ￡ ￢), ① and ㈱ of row 0x87,
\* and one code or two of each of the rows 0xED, 0xEE, 0xFA, 0xFB and 0xFC
Cp932Ext ==
    (<< 129, 95 >> :> 65340) @@ (<< 129, 96 >> :> 65374) @@ (<< 129, 97 >> :> 8741)
        @@ (<< 129, 124 >> :> 65293) @@ (<< 129, 145 >> :> 65504)
        @@ (<< 129, 146 >> :> 65505) @@ (<< 129, 202 >> :> 65506)
        @@ (<< 135, 64 >> :> 9312) @@ (<< 135, 138 >> :> 12849)
        @@ (<< 237, 64 >> :> 32394) @@ (<< 238, 252 >> :> 65282)
        @@ (<< 250, 64 >> :> 8560) @@ (<< 251, 64 >> :> 28054)
        @@ (<< 252, 75 >> :> 40657)

\* one step of a decoder: the bytes taken, none when they decode to
\* nothing, and the code point they decode to
Undecoded == [n |-> 0, cp |-> 0]
Took(n, cp) == [n |-> n, cp |-> cp]

\* the codec latin1: every byte is the character of that code point
latin1(b) == Took(1, b)

\* the codec utf-8 on the byte b and the three after it
utf_8(b, b1, b2, b3) ==
    LET Continuation(x) == x \in 128..191
    IN
    IF b < 128 THEN Took(1, b)
    ELSE IF b \in 194..223
    THEN (IF Continuation(b1) THEN Took(2, (b - 192) * 64 + (b1 - 128)) ELSE Undecoded)
    ELSE IF b \in 224..239
    THEN (IF /\ b1 \in (IF b = 224 THEN 160 ELSE 128)..(IF b = 237 THEN 159 ELSE 191)
             /\ Continuation(b2)
          THEN Took(3, (b - 224) * 4096 + (b1 - 128) * 64 + (b2 - 128))
          ELSE Undecoded)
    ELSE IF b \in 240..244
    THEN (IF /\ b1 \in (IF b = 240 THEN 144 ELSE 128)..(IF b = 244 THEN 143 ELSE 191)
             /\ Continuation(b2) /\ Continuation(b3)
          THEN Took(4, (b - 240) * 262144 + (b1 - 128) * 4096 + (b2 - 128) * 64 + (b3 - 128))
          ELSE Undecoded)
    ELSE Undecoded

\* a character of JIS X 0208 by its code; the code << 45, 106 >>, in row
\* 13 where cp932 has ㈱, is one JIS X 0208 leaves unassigned
JisChar(pair) ==
    IF pair[1] \notin 33..126 \/ pair[2] \notin 33..126 \/ pair = << 45, 106 >>
    THEN Undecoded
    ELSE Took(2, Jisx0208[pair])

\* the lead and trail bytes of Shift_JIS, and the JIS code of a pair
SjisLead(c) == c \in 129..159 \/ c \in 224..234
SjisTrail(c2) == c2 \in 64..126 \/ c2 \in 128..252
SjisCell(c2) == IF c2 < 128 THEN c2 - 64 ELSE c2 - 65
SjisToJis(c, c2) ==
    << 2 * (IF c < 224 THEN c - 129 ELSE c - 193)
         + (IF SjisCell(c2) < 94 THEN 0 ELSE 1) + 33,
       (IF SjisCell(c2) < 94 THEN SjisCell(c2) ELSE SjisCell(c2) - 94) + 33 >>

\* the codec shift_jis on the byte c and the one after it
shift_jis(c, c2) ==
    IF c < 128 THEN Took(1, c)
    ELSE IF c \in 161..223 THEN Took(1, 65216 + c)
    ELSE IF SjisLead(c) /\ SjisTrail(c2)
    THEN (IF SjisToJis(c, c2) = << 33, 64 >> THEN Took(2, 65340)
          ELSE JisChar(SjisToJis(c, c2)))
    ELSE Undecoded

\* the codec cp932 on the byte c and the one after it: the extension is
\* tried first; the rows 0xED, 0xEE and 0xFA to 0xFC hold codes of the
\* extension only
cp932(c, c2) ==
    IF c <= 128 THEN Took(1, c)
    ELSE IF c = 160 THEN Took(1, 63728)
    ELSE IF c \in 161..223 THEN Took(1, 65216 + c)
    ELSE IF c >= 253 THEN Took(1, 63729 + (c - 253))
    ELSE IF << c, c2 >> \in DOMAIN Cp932Ext THEN Took(2, Cp932Ext[<< c, c2 >>])
    ELSE IF SjisLead(c)
    THEN (IF SjisTrail(c2) THEN JisChar(SjisToJis(c, c2)) ELSE Undecoded)
    ELSE IF c \in 240..249 /\ SjisTrail(c2)
    THEN Took(2, 57344 + 188 * (c - 240) + SjisCell(c2))
    ELSE IF c \in {237, 238, 250, 251, 252} /\ SjisTrail(c2)
    THEN Took(2, Cp932Ext[<< c, c2 >>])
    ELSE Undecoded

\* the codec euc_jp on the byte c and the two after it: a code of JIS
\* with the high bit of its bytes flipped, or one of JIS X 0212 after the
\* byte 0x8F, of which three entries are given: 丂, ˘ and 龥
euc_jp(c, c2, c3) ==
    LET Flip(x) == IF x >= 128 THEN x - 128 ELSE x + 128
        Jisx0212 ==
            (<< 48, 33 >> :> 19970) @@ (<< 34, 47 >> :> 728) @@ (<< 109, 99 >> :> 40869)
    IN
    IF c < 128 THEN Took(1, c)
    ELSE IF c = 142
    THEN (IF c2 \in 161..223 THEN Took(2, 65216 + c2) ELSE Undecoded)
    ELSE IF c = 143
    THEN (IF Flip(c2) \in 33..126 /\ Flip(c3) \in 33..126
          THEN Took(3, Jisx0212[<< Flip(c2), Flip(c3) >>])
          ELSE Undecoded)
    ELSE IF c = 161 /\ c2 = 192 THEN Took(2, 65340)
    ELSE JisChar(<< Flip(c), Flip(c2) >>)

\* the byte at i, and after the last byte of a cell the byte that follows
\* the cell: a separator (0x2C) or a line end, which no codec takes into a
\* character begun in the cell
ByteAt(bytes, i) == IF i <= Len(bytes) THEN bytes[i] ELSE 44

\* one step of the codec an encoding names, at byte i
Step(bytes, i, encoding) ==
    CASE encoding = "utf-8" ->
            utf_8(bytes[i], ByteAt(bytes, i + 1), ByteAt(bytes, i + 2), ByteAt(bytes, i + 3))
      [] encoding = "shift_jis" -> shift_jis(bytes[i], ByteAt(bytes, i + 1))
      [] encoding = "cp932" -> cp932(bytes[i], ByteAt(bytes, i + 1))
      [] encoding = "euc_jp" ->
            euc_jp(bytes[i], ByteAt(bytes, i + 1), ByteAt(bytes, i + 2))
      [] encoding = "latin1" -> latin1(bytes[i])

\* bytes.decode(encoding) from byte i on: the text, or the failure the
\* codec raises as UnicodeDecodeError
RECURSIVE DecodeFrom(_, _, _)
DecodeFrom(bytes, i, encoding) ==
    IF i > Len(bytes) THEN [ok |-> TRUE, text |-> << >>]
    ELSE LET char == Step(bytes, i, encoding)
             rest == DecodeFrom(bytes, i + char.n, encoding)
         IN  IF char.n > 0 /\ rest.ok
             THEN [ok |-> TRUE, text |-> << Chr(char.cp) >> \o rest.text]
             ELSE [ok |-> FALSE, text |-> << >>]

\* the codec raises nowhere from byte i on
RECURSIVE DecodableFrom(_, _, _)
DecodableFrom(bytes, i, encoding) ==
    \/ i > Len(bytes)
    \/ LET char == Step(bytes, i, encoding)
       IN  char.n > 0 /\ DecodableFrom(bytes, i + char.n, encoding)

\* the bytes of the character c in a file saved in the encoding: one to
\* three bytes in UTF-8, the two bytes of its JIS code in Shift_JIS and
\* cp932, and none when the encoding has no code for the character
CharBytes(c, written) ==
    LET cp == Ord[c]
        HasCode(table) == \E pair \in DOMAIN table : table[pair] = cp
        CodeIn(table) == CHOOSE pair \in DOMAIN table : table[pair] = cp
        j == CodeIn(Jisx0208)
    IN  IF cp < 128 THEN << cp >>
        ELSE IF written = "utf-8"
        THEN (IF cp < 2048 THEN << 192 + (cp \div 64), 128 + (cp % 64) >>
              ELSE << 224 + (cp \div 4096), 128 + ((cp \div 64) % 64), 128 + (cp % 64) >>)
        ELSE IF written = "cp932" /\ HasCode(Cp932Ext) THEN CodeIn(Cp932Ext)
        ELSE IF HasCode(Jisx0208)
        THEN << ((j[1] + 1) \div 2) + (IF j[1] < 95 THEN 112 ELSE 176),
                j[2] + (IF j[1] % 2 = 1 THEN (IF j[2] < 96 THEN 31 ELSE 32) ELSE 126) >>
        ELSE << >>

RECURSIVE Encode(_, _)
Encode(chars, written) ==
    IF chars = << >> THEN << >>
    ELSE CharBytes(Head(chars), written) \o Encode(Tail(chars), written)

(***************************************************************************)
(* The files.  A file is its number of columns, the bytes of the cells of  *)
(* its data rows (the lines after the skipped lines and the header, which  *)
(* are taken to be ASCII) and whether it is longer than the block the      *)
(* reader takes at once.  The rows drawn hold one text in every column     *)
(* from 課税区分 on, so that the output shows which positions were          *)
(* converted.                                                              *)
(***************************************************************************)
MaxRows == 2

\* line 175
encodings == << "utf-8", "shift_jis", "cp932", "euc_jp", "latin1" >>

DateText == << "2", "0", "2", "4", "/", "1", "/", "5" >>
LaterDateText == << "2", "0", "2", "4", "/", "1", "/", "9" >>
Word == << "x" >>

\* a company name with ㈱, a character of cp932 that Shift_JIS lacks
Kabu == << "U+3231", "x" >>

RowOf(n, date, name, type, text) ==
    [j \in 1..n |->
        IF j = 1 THEN date
        ELSE IF j = 2 THEN name
        ELSE IF j = 5 THEN type
        ELSE IF j <= 7 THEN Word
        ELSE text]

\* the rows a file is made of: buys and sells on either day with either
\* amount, and rows whose date, type or amount is not what it should be
RowKinds ==
    { << DateText, BuyType, << "7" >> >>,
      << DateText, BuyType, << "1", ",", "2" >> >>,
      << DateText, SellType, << "7" >> >>,
      << LaterDateText, SellType, << "1", ",", "2" >> >>,
      << LaterDateText, BuyType, << "7" >> >>,
      << Word, BuyType, << "7" >> >>,
      << DateText, Word, << "7" >> >>,
      << DateText, BuyType, Word >>,
      << Word, Word, Word >> }

\* the file of n columns with the rows saved in an encoding that has a
\* code for every character of theirs
Saved(n, rows, written, long) ==
    [ncols |-> n,
     rows |-> [r \in 1..Len(rows) |-> [j \in 1..n |-> Encode(rows[r][j], written)]],
     long |-> long]

\* the small files of up to MaxRows rows, saved in UTF-8 and in Shift_JIS
Tables ==
    UNION { { Saved(n, rs, written, FALSE) :
                rs \in UNION { [1..k -> { RowOf(n, kind[1], Word, kind[2], kind[3]) :
                                            kind \in RowKinds }] : k \in 0..MaxRows },
                written \in {"utf-8", "shift_jis"} } :
            n \in {13, 14, 15} }

(***************************************************************************)
(* Reading an upload.  read_csv reads the upload from where the last read  *)
(* left it and no line of the script rewinds it.  A read that decodes goes *)
(* to the end of the file.  A read that cannot decode stops after the      *)
(* block of bytes it failed in: the end of a short file, and somewhere     *)
(* from the undecodable row on in a long one.  A later read skips lines    *)
(* and takes its header from what is left, so the rows it returns are the  *)
(* rows after some row; at the end of the file it finds no columns and     *)
(* raises.                                                                 *)
(***************************************************************************)
EndOf(file) == Len(file.rows) + 1

\* the bytes of the upload read as far as p that read_csv is given
Unread(file, p) ==
    IF p >= EndOf(file) THEN [ncols |-> 0, rows |-> << >>]
    ELSE [ncols |-> file.ncols, rows |-> SubSeq(file.rows, p + 1, Len(file.rows))]

\* every cell of the row decodes
RowDecodes(row, encoding) == \A j \in DOMAIN row : DecodableFrom(row[j], 1, encoding)

\* the codec raises nowhere in the cells
Decodes(table, encoding) ==
    \A r \in 1..Len(table.rows) : RowDecodes(table.rows[r], encoding)

\* the text of the cells under the encoding
Decoded(table, encoding) ==
    [ncols |-> table.ncols,
     rows |-> [r \in 1..Len(table.rows) |->
                [j \in DOMAIN table.rows[r] |-> DecodeFrom(table.rows[r][j], 1, encoding).text]]]

\* load_data on the upload with one encoding: what it returns and how far
\* the upload has been read afterwards
ReadOutcomes(file, p, encoding) ==
    IF p >= EndOf(file) THEN { [data |-> None, position |-> p] }
    ELSE IF Decodes(Unread(file, p), encoding)
    THEN { [data |-> load_data(Decoded(Unread(file, p), encoding)),
            position |-> EndOf(file)] }
    ELSE IF file.long
    THEN LET \* the first row after p the codec raises in
             first == CHOOSE r \in (p + 1)..Len(file.rows) :
                        /\ ~RowDecodes(file.rows[r], encoding)
                        /\ \A q \in (p + 1)..(r - 1) : RowDecodes(file.rows[q], encoding)
         IN  { [data |-> None, position |-> q] : q \in first..EndOf(file) }
    ELSE { [data |-> None, position |-> EndOf(file)] }

(***************************************************************************)
(* The efficiency block, lines 619-634, as a function of the four regime   *)
(* sums it reads.  No line of the script binds these four names, so their  *)
(* number type is open: a sum of a pandas column is a numpy float, whose   *)
(* 0/0 is NaN, and a Python number raises ZeroDivisionError, which the     *)
(* handler of line 636 catches.                                            *)
(***************************************************************************)
Score(x) == [k |-> "score", v |-> x]

\* lines 619-628: the outcomes of the block on the sums r
EfficiencyOutcomes(r) ==
    LET total_buy == r.buy_on_up + r.buy_on_down
        total_sell == r.sell_on_up + r.sell_on_down
        optimal_ratio == FMul(FDiv(FromInt(r.buy_on_down), FromInt(total_buy)),
                              FDiv(FromInt(r.sell_on_up), FromInt(total_sell)))
        actual_ratio == FMul(FDiv(FromInt(r.buy_on_up), FromInt(total_buy)),
                             FDiv(FromInt(r.sell_on_down), FromInt(total_sell)))
        denominator == FAdd(optimal_ratio, actual_ratio)
    IN  IF ~(total_buy > 0 /\ total_sell > 0)
        THEN { NoScore }
        ELSE IF IsZero(denominator)
             THEN { Score(FSub(FromInt(1), FDiv(actual_ratio, denominator))),
                    [k |-> "error", v |-> NaN] }
             ELSE { Score(FSub(FromInt(1), FDiv(actual_ratio, denominator))) }

\* lines 636-638: the handler of the analysis block
ExceptHandler ==
    /\ pc = "except"
    /\ out' = out \cup {"analysis_error"}
    /\ pc' = "toplevel"
    /\ UNCHANGED <<indVars, nikkei_sorted, matchVars, loadVars, enc, names, regime,
                   efficiency>>

(***************************************************************************)
(* One run of the script, from the upload to the last section.  Which data *)
(* source is chosen, whether a file is there and whether the benchmark     *)
(* arrives is up to the user, the machine and the network: all open here.  *)
(* A name the script reads before any line has bound it raises NameError;  *)
(* inside the try of line 213 the handler of line 636 catches it, at the   *)
(* top level it ends the run.                                              *)
(***************************************************************************)
\* a loop that tries the selected encoding again
SkipsNone(e, option) == FALSE

\* line 177: the encoding already tried is skipped
Skips(e, option) == e = option

\* the rows of the files a run may be given: trades on two days, the same
\* with ㈱ in the company names, a buy on the first day and a sell on the
\* second, a buy and a sell on the second day, a file whose only date
\* cannot be parsed, and a file with a column missing
RunRows ==
    { << 14, << RowOf(14, DateText, Word, BuyType, << "7" >>),
                RowOf(14, LaterDateText, Word, SellType, << "7" >>),
                RowOf(14, LaterDateText, Word, BuyType, << "7" >>) >> >>,
      << 14, << RowOf(14, DateText, Kabu, BuyType, << "7" >>),
                RowOf(14, LaterDateText, Kabu, SellType, << "7" >>),
                RowOf(14, LaterDateText, Kabu, BuyType, << "7" >>) >> >>,
      << 14, << RowOf(14, DateText, Word, BuyType, << "7" >>),
                RowOf(14, LaterDateText, Word, SellType, << "7" >>) >> >>,
      << 14, << RowOf(14, LaterDateText, Word, BuyType, << "7" >>),
                RowOf(14, LaterDateText, Word, SellType, << "7" >>) >> >>,
      << 14, << RowOf(14, Word, Word, BuyType, << "7" >>) >> >>,
      << 13, << RowOf(13, DateText, Word, BuyType, << "7" >>) >> >> }

\* the files a run may be given, uploaded or at the sample path: the rows
\* saved in UTF-8, Shift_JIS or cp932, whichever has a code for every
\* character of theirs
RunFiles ==
    { Saved(f[1][1], f[1][2], f[2], long) :
        f \in { g \in RunRows \X {"utf-8", "shift_jis", "cp932"} :
                    \A r \in 1..Len(g[1][2]) : \A j \in DOMAIN g[1][2][r] :
                        \A i \in 1..Len(g[1][2][r][j]) :
                            CharBytes(g[1][2][r][j][i], g[2]) # << >> },
        long \in BOOLEAN }

\* the benchmark series a run may receive, and the dates of their bars
RunSeries == { << >>, << 2, 1, 1, 3 >>, << 1, 2, 2, 1 >> }
BenchmarkDates == << 20240104, 20240105, 20240108, 20240109 >>

InitRun ==
    /\ pc = "start"
    /\ Close = << >>
    /\ spans = << >>
    /\ nikkei_sorted = NoTable
    /\ MatchIdle
    /\ raw \in RunFiles
    /\ position = 0
    /\ data = None
    /\ daily_trade = None
    /\ \E o \in {encodings[i] : i \in 1..Len(encodings)} :
          enc = [NoEncoding EXCEPT !.option = o]
    /\ out = {}
    /\ names = {}
    /\ regime = NoRegime
    /\ efficiency = NoScore

\* lines 143-145 and 186-188: the upload option with nothing uploaded
NoUpload ==
    /\ pc = "start"
    /\ data' = None
    /\ out' = out \cup {"no_file"}
    /\ names' = names \cup {"uploaded_file", "data"}
    /\ pc' = "main"
    /\ UNCHANGED <<indVars, nikkei_sorted, matchVars, raw, position, daily_trade, enc,
                   regime, efficiency>>

\* lines 189-190 and 193-195: the sample option with no file at the sample
\* path, an error message
SampleMissing ==
    /\ pc = "start"
    /\ data' = None
    /\ out' = out \cup {"sample_missing"}
    /\ names' = names \cup {"sample_path", "data"}
    /\ pc' = "main"
    /\ UNCHANGED <<indVars, nikkei_sorted, matchVars, raw, position, daily_trade, enc,
                   regime, efficiency>>

\* lines 189-192: the sample file is there and load_data reads it from its
\* path (line 97) with utf-8, the default of line 90; no line is skipped,
\* the header is the first line and the rows are the lines after it
SampleLoad ==
    /\ pc = "start"
    /\ data' = IF Decodes(raw, "utf-8") THEN load_data(Decoded(raw, "utf-8")) ELSE None
    /\ out' = out \cup LoadMessages(data')
    /\ names' = names \cup {"sample_path", "data"}
    /\ pc' = "main"
    /\ UNCHANGED <<indVars, nikkei_sorted, matchVars, raw, position, daily_trade, enc,
                   regime, efficiency>>

\* line 170: the upload is read with the selected encoding
FirstLoad ==
    /\ pc = "start"
    /\ \E read \in ReadOutcomes(raw, position, enc.option) :
          /\ data' = read.data
          /\ position' = read.position
          /\ out' = out \cup LoadMessages(data')
          /\ pc' = IF data'.loaded THEN "main" ELSE "button"
    /\ names' = names \cup {"uploaded_file", "encoding_option", "separator", "skip_rows",
                              "data"}
    /\ UNCHANGED <<indVars, nikkei_sorted, matchVars, raw, daily_trade, enc, regime,
                   efficiency>>

\* lines 173-175: the auto-detect button, pressed or not
AutoDetectButton ==
    /\ pc = "button"
    /\ \E pressed \in BOOLEAN :
          /\ enc' = [enc EXCEPT !.pressed = pressed, !.i = IF pressed THEN 1 ELSE 0]
          /\ pc' = IF pressed THEN "loop" ELSE "main"
    /\ UNCHANGED <<indVars, nikkei_sorted, matchVars, loadVars, out, names, regime,
                   efficiency>>

\* lines 176-177: the selected encoding is passed over
SkipEncoding ==
    /\ pc = "loop"
    /\ enc.i <= Len(encodings)
    /\ Skips(encodings[enc.i], enc.option)
    /\ enc' = [enc EXCEPT !.i = @ + 1]
    /\ UNCHANGED <<pc, indVars, nikkei_sorted, matchVars, loadVars, out, names, regime,
                   efficiency>>

\* lines 178-185: the file is read with the next encoding; the loop ends
\* when a table comes back
TryEncoding ==
    /\ pc = "loop"
    /\ enc.i <= Len(encodings)
    /\ ~Skips(encodings[enc.i], enc.option)
    /\ \E read \in ReadOutcomes(raw, position, encodings[enc.i]) :
          /\ data' = read.data
          /\ position' = read.position
          /\ out' = out \cup {"trying"} \cup LoadMessages(data')
                         \cup (IF data'.loaded THEN {"detected"} ELSE {})
          /\ enc' = [enc EXCEPT !.i = @ + 1,
                                !.tried = Append(@, [enc |-> encodings[enc.i],
                                                     ok |-> data'.loaded])]
          /\ pc' = IF data'.loaded THEN "main" ELSE "loop"
    /\ UNCHANGED <<indVars, nikkei_sorted, matchVars, raw, daily_trade, names, regime,
                   efficiency>>

\* line 176: no encoding is left
LoopEnd ==
    /\ pc = "loop"
    /\ enc.i > Len(encodings)
    /\ pc' = "main"
    /\ UNCHANGED <<indVars, nikkei_sorted, matchVars, loadVars, runVars>>

\* line 198, data is None: the main section is passed over
MainSkipped ==
    /\ pc = "main"
    /\ ~data.loaded
    /\ pc' = "toplevel"
    /\ UNCHANGED <<indVars, nikkei_sorted, matchVars, loadVars, runVars>>

\* lines 198-209: the main section starts
MainSection ==
    /\ pc = "main"
    /\ data.loaded
    /\ out' = out \cup {"loaded"}
    /\ names' = names \cup {"min_date", "max_date"}
    /\ pc' = "dates"
    /\ UNCHANGED <<indVars, nikkei_sorted, matchVars, loadVars, enc, regime, efficiency>>

\* lines 211 and 639-640: no date range, a warning
DateRangeMissing ==
    /\ pc = "dates"
    /\ ~HasDateRange(data)
    /\ out' = out \cup {"date_warning"}
    /\ pc' = "toplevel"
    /\ UNCHANGED <<indVars, nikkei_sorted, matchVars, loadVars, enc, names, regime,
                   efficiency>>

\* lines 211-217: the benchmark is requested; it arrives or the call raises
BenchmarkDownload ==
    /\ pc = "dates"
    /\ HasDateRange(data)
    /\ out' = out \cup {"benchmark_requested"}
    /\ \/ /\ \E series \in RunSeries, sp \in MacdSpans :
                /\ Close' = series
                /\ spans' = sp
          /\ names' = names \cup {"nikkei"}
          /\ pc' = "aggregate"
       \/ /\ pc' = "except"
          /\ UNCHANGED <<Close, spans, names>>
    /\ UNCHANGED <<nikkei_sorted, matchVars, loadVars, enc, regime, efficiency>>

\* lines 220-250: the daily series and their join with the benchmark
AggregateAndJoin ==
    /\ pc = "aggregate"
    /\ daily_trade' = DailyTradeOf(data)
    /\ buy_daily' = DailySeries(daily_trade'.rows, BuyType)
    /\ sell_daily' = DailySeries(daily_trade'.rows, SellType)
    /\ merged_df' = MergedDf(SubSeq(BenchmarkDates, 1, Len(Close)), buy_daily', sell_daily')
    /\ names' = names \cup {"daily_trade", "buy_daily", "sell_daily", "merged_df"}
    /\ pc' = "trend"
    /\ UNCHANGED <<indVars, nikkei_sorted, ma_match, strong_match, raw, position, data,
                   enc, out, regime, efficiency>>

\* lines 297-315: the trend table
TrendAnalysis ==
    /\ pc = "trend"
    /\ nikkei_sorted' = [Index |-> SubSeq(BenchmarkDates, 1, Len(Close))] @@ TrendTable(Close)
    /\ names' = names \cup {"nikkei_sorted"}
    /\ pc' = "match"
    /\ UNCHANGED <<indVars, matchVars, loadVars, enc, out, regime, efficiency>>

\* lines 399-447: the trades against the MA signals
SignalMatching ==
    /\ pc = "match"
    /\ ma_match' = MatchResult(merged_df, nikkei_sorted.Index,
                                nikkei_sorted.BuySignal, nikkei_sorted.SellSignal)
    /\ names' = names \cup {"signal_window"}
    /\ out' = out \cup {"match_rates"}
    /\ pc' = "market"
    /\ UNCHANGED <<indVars, nikkei_sorted, buy_daily, sell_daily, merged_df, strong_match,
                   loadVars, enc, regime, efficiency>>

\* lines 527-634: the market-condition table reads buy_on_up, buy_on_down,
\* sell_on_up and sell_on_down (line 529): NameError when they are not
\* bound, and no line binds them; else the table and the ratios are shown
\* and the efficiency block runs
MarketTable ==
    /\ pc = "market"
    /\ IF {"buy_on_up", "buy_on_down", "sell_on_up", "sell_on_down"} \subseteq names
       THEN \E e \in EfficiencyOutcomes(regime) :
               /\ efficiency' = e
               /\ out' = out \cup {"market_table"}
                            \cup (IF e.k = "score" THEN {"efficiency_metric"} ELSE {})
               /\ pc' = IF e.k = "error" THEN "except" ELSE "toplevel"
       ELSE /\ pc' = "except"
            /\ UNCHANGED <<out, efficiency>>
    /\ UNCHANGED <<indVars, nikkei_sorted, matchVars, loadVars, enc, names, regime>>

\* lines 670-695 and the charts up to line 890, outside every try: they
\* read nikkei_sorted, and line 725 reads its first index
TopLevelIndicators ==
    /\ pc = "toplevel"
    /\ IF "nikkei_sorted" \in names
       THEN /\ nikkei_sorted' = IndicatorTable(nikkei_sorted, spans)
            /\ IF Len(Close) > 0
               THEN /\ pc' = "strong"
                    /\ out' = out \cup {"indicator_charts"}
               ELSE /\ pc' = "crashed"
                    /\ out' = out \cup {"uncaught_error"}
       ELSE /\ pc' = "crashed"
            /\ out' = out \cup {"uncaught_error"}
            /\ UNCHANGED nikkei_sorted
    /\ UNCHANGED <<indVars, matchVars, loadVars, enc, names, regime, efficiency>>

\* lines 897-937: the trades against the strong signals
StrongMatching ==
    /\ pc = "strong"
    /\ IF {"merged_df", "signal_window"} \subseteq names
       THEN /\ strong_match' = MatchResult(merged_df, nikkei_sorted.Index,
                                           nikkei_sorted.StrongBuySignal,
                                           nikkei_sorted.StrongSellSignal)
            /\ out' = out \cup {"strong_match_rates"}
            /\ pc' = "done"
       ELSE /\ pc' = "crashed"
            /\ out' = out \cup {"uncaught_error"}
            /\ UNCHANGED strong_match
    /\ UNCHANGED <<indVars, nikkei_sorted, buy_daily, sell_daily, merged_df, ma_match,
                   loadVars, enc, names, regime, efficiency>>

NextRun ==
    \/ NoUpload \/ SampleMissing \/ SampleLoad \/ FirstLoad \/ AutoDetectButton
    \/ SkipEncoding \/ TryEncoding \/ LoopEnd
    \/ MainSkipped \/ MainSection \/ DateRangeMissing \/ BenchmarkDownload
    \/ AggregateAndJoin \/ TrendAnalysis \/ SignalMatching \/ MarketTable
    \/ ExceptHandler \/ TopLevelIndicators \/ StrongMatching

SpecRun == InitRun /\ [][NextRun]_vars

(***************************************************************************)
(* The same run over every small file, with the encoding the selectbox     *)
(* starts with (line 153).                                                 *)
(***************************************************************************)
InitLoad ==
    /\ pc = "start"
    /\ Close = << >>
    /\ spans = << >>
    /\ nikkei_sorted = NoTable
    /\ MatchIdle
    /\ raw \in Tables
    /\ position = 0
    /\ data = None
    /\ daily_trade = None
    /\ enc = [NoEncoding EXCEPT !.option = "shift_jis"]
    /\ out = {}
    /\ names = {}
    /\ regime = NoRegime
    /\ efficiency = NoScore

SpecLoad == InitLoad /\ [][NextRun]_vars

(***************************************************************************)
(* The claim about the normalizer, checked under SpecLoad.                 *)
(***************************************************************************)
\* the encoding of the first read: the selected one for an upload, the
\* default of load_data for the file at the sample path
FirstEncoding == IF "sample_path" \in names THEN "utf-8" ELSE enc.option

\* the text the first read made of the file
FirstText == Decoded(raw, FirstEncoding)

\* the first read of the file returned a table
Loaded == data.loaded /\ enc.tried = << >>

NumericFields == {"Quantity", "UnitPrice", "Fee", "Tax", "SettlementAmount"}

RawCell(r, f) == FirstText.rows[r][Position(f)]

\* the cell as read_csv gave it
AsRead(r, f) == read_csv(FirstText)[r][Position(f)]

\* the text with its thousands separators removed, as a number, or null
Parsed(chars) ==
    LET digits == SelectSeq(chars, LAMBDA c : c # ",")
        ok == Len(digits) > 0 /\ \A i \in 1..Len(digits) : digits[i] \in DOMAIN DigitValue
    IN  IF ok THEN Num(ParseInt(digits, Len(digits))) ELSE Null

\* C10, as claimed: of a 14-column table, exactly quantity, unit price, fee,
\* tax and settlement amount are stripped of separators and parsed to
\* numbers, null when not numeric, and no other field but the date is altered.
C10_NumericFields ==
    Loaded =>
        \A r \in 1..Len(data.rows) :
            \A f \in DOMAIN data.rows[r] :
                IF f \in NumericFields
                THEN data.rows[r][f] = Parsed(RawCell(r, f))
                ELSE f # "Date" => data.rows[r][f] = AsRead(r, f)

\* what the code does: the converted positions 7, 8, 9, 10 and 12 carry the
\* names tax category, quantity, unit price, fee and settlement date
ConvertedFields == {"TaxCategory", "Quantity", "UnitPrice", "Fee", "SettlementDate"}

ConvertedByPosition ==
    Loaded =>
        \A r \in 1..Len(data.rows) :
            \A f \in DOMAIN data.rows[r] :
                IF f \in ConvertedFields
                THEN data.rows[r][f] = Parsed(RawCell(r, f))
                ELSE f # "Date" => data.rows[r][f] = AsRead(r, f)

(***************************************************************************)
(* Claims about the timing matcher, checked under SpecMatch.               *)
(***************************************************************************)
HasMAMatch == pc \in {"strong_match", "done"}
HasStrongMatch == pc = "done"

RECURSIVE SetSum(_, _)
SetSum(f, S) ==
    IF S = {} THEN 0
    ELSE LET x == CHOOSE y \in S : TRUE IN f[x] + SetSum(f, S \ {x})

RECURSIVE ColumnSum(_, _, _)
ColumnSum(df, column, n) ==
    IF n = 0 THEN 0 ELSE ColumnSum(df, column, n - 1) + df[n][column]

\* day d lies in the window of some bar on which the signal fired
InSomeWindow(d, signal) ==
    \E i \in 1..Len(nikkei_sorted.Index) :
        /\ signal[i]
        /\ nikkei_sorted.Index[i] - signal_window <= d
        /\ d <= nikkei_sorted.Index[i] + signal_window

\* matched is the notional of the distinct days inside the union of the
\* windows, and matched + mismatched is the notional of the whole table
MatchedOnce(matched, mismatched, daily, column, signal) ==
    /\ matched = SetSum(daily, {d \in DOMAIN daily : InSomeWindow(d, signal)})
    /\ mismatched = SetSum(daily, DOMAIN daily) - matched
    /\ matched + mismatched = ColumnSum(merged_df, column, Len(merged_df))

\* C1: for the MA signals and for the strong signals, buys and sells alike,
\* the matched amount is the sum of the day's notional over the distinct days
\* in the union of the windows [d-7, d+7] of the signal dates d, each day
\* counted once however many windows cover it, and matched + mismatched is
\* the direction's notional over all days of the joined table.
C1_MatchedOncePerDay ==
    /\ HasMAMatch =>
        /\ MatchedOnce(ma_match.matched_buys, ma_match.mismatched_buys,
                       buy_daily, "BuyAmount", nikkei_sorted.BuySignal)
        /\ MatchedOnce(ma_match.matched_sells, ma_match.mismatched_sells,
                       sell_daily, "SellAmount", nikkei_sorted.SellSignal)
    /\ HasStrongMatch =>
        /\ MatchedOnce(strong_match.matched_buys, strong_match.mismatched_buys,
                       buy_daily, "BuyAmount", nikkei_sorted.StrongBuySignal)
        /\ MatchedOnce(strong_match.matched_sells, strong_match.mismatched_sells,
                       sell_daily, "SellAmount", nikkei_sorted.StrongSellSignal)

\* buy signals on day 0 and day 3, a buy on day 7 inside both windows and a
\* buy on day 11 outside both: the first is matched once, the second is not
C1_Witness ==
    /\ HasStrongMatch
    /\ nikkei_sorted.Index = <<0, 3>>
    /\ nikkei_sorted.BuySignal = <<TRUE, TRUE>>
    /\ DOMAIN buy_daily = {7, 11}
    /\ ma_match.matched_buys = buy_daily[7]
    /\ ma_match.mismatched_buys = buy_daily[11]

\* the rate is a number, matched/denominator*100 when the denominator is
\* positive and 0 otherwise
RateIs(rate, matched, denominator) ==
    /\ rate.k = "fin"
    /\ IF denominator > 0
       THEN rate.n * denominator = 100 * matched * rate.d
       ELSE rate.n = 0

RatesOf(m) ==
    /\ RateIs(m.buy_match_rate, m.matched_buys, m.matched_buys + m.mismatched_buys)
    /\ RateIs(m.sell_match_rate, m.matched_sells, m.matched_sells + m.mismatched_sells)
    /\ RateIs(m.overall_match_rate, m.matched_buys + m.matched_sells,
              m.matched_buys + m.mismatched_buys + m.matched_sells + m.mismatched_sells)

\* C2: the buy, the sell and the overall match rate, of the MA signals and
\* of the strong signals, are matched/(matched+mismatched)*100 when that
\* denominator is positive and exactly 0 otherwise; no division by zero,
\* with no trades and no signals either.
C2_MatchRates ==
    /\ HasMAMatch => RatesOf(ma_match)
    /\ HasStrongMatch => RatesOf(strong_match)

\* a run with no benchmark bar, no signal and no trade: every rate is 0
C2_Witness ==
    /\ HasStrongMatch
    /\ nikkei_sorted.Index = << >>
    /\ DOMAIN buy_daily = {} /\ DOMAIN sell_daily = {}
    /\ ma_match.overall_match_rate.n = 0
    /\ strong_match.overall_match_rate.n = 0

\* a run where the rates are neither 0 nor 100
PartlyMatched ==
    /\ HasStrongMatch
    /\ ma_match.matched_buys > 0 /\ ma_match.mismatched_buys > 0
    /\ strong_match.matched_sells > 0 /\ strong_match.mismatched_sells > 0

(***************************************************************************)
(* The claim about the composite signal, checked under SpecStrong.         *)
(***************************************************************************)
Count(b) == IF b THEN 1 ELSE 0

Firing(i, ma, rsi, macd) == Count(ma[i]) + Count(rsi[i]) + Count(macd[i])

BuysFiring(i) ==
    Firing(i, nikkei_sorted.BuySignal, nikkei_sorted.RSI_BuySignal,
           nikkei_sorted.MACD_BuySignal)

SellsFiring(i) ==
    Firing(i, nikkei_sorted.SellSignal, nikkei_sorted.RSI_SellSignal,
           nikkei_sorted.MACD_SellSignal)

\* C3: on every day and in each direction the strong signal is true iff at
\* least two of the three family signals of that day and direction are true.
C3_StrongIsMajority ==
    pc = "done" =>
        \A i \in 1..Len(nikkei_sorted.BuySignal) :
            /\ nikkei_sorted.StrongBuySignal[i] <=> BuysFiring(i) >= 2
            /\ nikkei_sorted.StrongSellSignal[i] <=> SellsFiring(i) >= 2

\* a table with a day where exactly two buy signals fire and the strong buy
\* signal is true, and a day where exactly one sell signal fires and the
\* strong sell signal is false
C3_Witness ==
    /\ pc = "done"
    /\ \E i \in 1..Len(nikkei_sorted.BuySignal) :
          BuysFiring(i) = 2 /\ nikkei_sorted.StrongBuySignal[i]
    /\ \E i \in 1..Len(nikkei_sorted.BuySignal) :
          SellsFiring(i) = 1 /\ ~nikkei_sorted.StrongSellSignal[i]

(***************************************************************************)
(* Claims about the indicator engine and the signal generator, checked     *)
(* under SpecInd.  They read the table the script built and compare its    *)
(* values as fractions: x.n/x.d < y.n/y.d iff x.n*y.d < y.n*x.d.           *)
(***************************************************************************)
HasTrend == pc \in {"indicators", "done"}
HasIndicators == pc = "done"
T == nikkei_sorted
N == Len(T.BuySignal)

Defined(x) == x.k = "fin"
Less(x, y) == x.n * y.d < y.n * x.d
Same(x, y) == x.n * y.d = y.n * x.d
AtMost(x, y) == Less(x, y) \/ Same(x, y)
Hundred == [k |-> "fin", n |-> 100, d |-> 1, neg |-> FALSE]
Thirty == [k |-> "fin", n |-> 30, d |-> 1, neg |-> FALSE]
Seventy == [k |-> "fin", n |-> 70, d |-> 1, neg |-> FALSE]

\* both averages known on day i and on the day before
MAKnown(i) ==
    /\ i > 1
    /\ \A j \in {i - 1, i} : Defined(T.MA_short[j]) /\ Defined(T.MA_medium[j])

\* C4: the MA buy signal fires on day t iff short MA(t) > medium MA(t) and
\* short MA(t-1) <= medium MA(t-1), the MA sell signal iff short MA(t) <
\* medium MA(t) and short MA(t-1) >= medium MA(t-1); neither fires when an
\* average is undefined on t or t-1 (an average of window w is undefined
\* exactly on the first w-1 bars), nor when the averages are equal on both days.
C4_MACrossover ==
    HasTrend =>
        \A i \in 1..N :
            /\ Defined(T.MA_short[i]) <=> i >= nikkei_ma_short
            /\ Defined(T.MA_medium[i]) <=> i >= nikkei_ma_medium
            /\ T.BuySignal[i] <=>
                    /\ MAKnown(i)
                    /\ Less(T.MA_medium[i], T.MA_short[i])
                    /\ AtMost(T.MA_short[i - 1], T.MA_medium[i - 1])
            /\ T.SellSignal[i] <=>
                    /\ MAKnown(i)
                    /\ Less(T.MA_short[i], T.MA_medium[i])
                    /\ AtMost(T.MA_medium[i - 1], T.MA_short[i - 1])
            /\ (MAKnown(i) /\ Same(T.MA_short[i], T.MA_medium[i])
                    /\ Same(T.MA_short[i - 1], T.MA_medium[i - 1]))
                 => ~T.BuySignal[i] /\ ~T.SellSignal[i]

\* a series with a golden cross and a dead cross
C4_Witness ==
    /\ HasTrend
    /\ \E i \in 1..N : T.BuySignal[i]
    /\ \E i \in 1..N : T.SellSignal[i]

RSIKnown(i) == i > 1 /\ Defined(T.RSI[i]) /\ Defined(T.RSI[i - 1])

\* C5: the RSI buy signal fires on day t iff RSI(t) < 30 and RSI(t-1) >= 30,
\* the RSI sell signal iff RSI(t) > 70 and RSI(t-1) <= 70; neither fires when
\* RSI is undefined on t or t-1; RSI staying below 30 (above 70) on
\* consecutive days fires only on the day of entry.
C5_RSIThreshold ==
    HasIndicators =>
        \A i \in 1..N :
            /\ T.RSI_BuySignal[i] <=>
                    /\ RSIKnown(i)
                    /\ Less(T.RSI[i], Thirty)
                    /\ AtMost(Thirty, T.RSI[i - 1])
            /\ T.RSI_SellSignal[i] <=>
                    /\ RSIKnown(i)
                    /\ Less(Seventy, T.RSI[i])
                    /\ AtMost(T.RSI[i - 1], Seventy)
            /\ (RSIKnown(i) /\ Less(T.RSI[i], Thirty) /\ Less(T.RSI[i - 1], Thirty))
                    => ~T.RSI_BuySignal[i]
            /\ (RSIKnown(i) /\ Less(Seventy, T.RSI[i]) /\ Less(Seventy, T.RSI[i - 1]))
                    => ~T.RSI_SellSignal[i]

\* RSI enters the oversold zone, stays there the next day, and the signal
\* fired on the day of entry only
C5_Witness ==
    /\ HasIndicators
    /\ \E i \in 2..N :
          /\ T.RSI_BuySignal[i - 1]
          /\ RSIKnown(i) /\ Less(T.RSI[i], Thirty)
          /\ ~T.RSI_BuySignal[i]

\* the exponential averages of x[1..t]: they start at x[1] and move towards
\* each new value by the factor 2/(span+1) of the distance
RECURSIVE EmaValues(_, _, _)
EmaValues(x, span, t) ==
    IF t = 0 THEN << >>
    ELSE IF t = 1 THEN << Widen(FromInt(x[1])) >>
    ELSE LET before == EmaValues(x, span, t - 1)
         IN  Append(before,
                    WideAdd(before[t - 1],
                            WideMul(Widen(Fin(2, span + 1)),
                                    WideSub(Widen(FromInt(x[t])), before[t - 1]))))

\* a wide value that is finite, and its sign
Finite(x) == x.k = "wide"
Positive(x) == x.k = "wide" /\ x.n # << >> /\ ~x.neg
Negative(x) == x.k = "wide" /\ x.n # << >> /\ x.neg

\* MACD above or below its signal line: the sign of the histogram, which
\* C6 shows to be MACD - signal
MacdAbove(i) == Positive(T.Histogram[i])
MacdBelow(i) == Negative(T.Histogram[i])

\* C6: the fast and slow EMAs start at the first close and are updated with
\* the factor 2/(span+1), the signal line is the same average of the MACD
\* line, so all three columns are defined from the first bar, and
\* histogram = MACD - signal on every row; the MACD buy signal fires on day t
\* iff MACD(t) > signal(t) and MACD(t-1) <= signal(t-1), the sell signal iff
\* MACD(t) < signal(t) and MACD(t-1) >= signal(t-1); none fires on the first bar.
C6_MACD ==
    HasIndicators =>
        LET fast == EmaValues(Close, spans[1], N)
            slow == EmaValues(Close, spans[2], N)
        IN  \A i \in 1..N :
            /\ Finite(T.MACD[i]) /\ Finite(T.Signal[i]) /\ Finite(T.Histogram[i])
            /\ WideEq(T.MACD[i], WideSub(fast[i], slow[i]))
            /\ i = 1 => WideEq(T.Signal[i], T.MACD[i])
            /\ i > 1 =>
                  WideEq(WideMul(Widen(FromInt(spans[3] + 1)),
                                 WideSub(T.Signal[i], T.Signal[i - 1])),
                         WideMul(Widen(FromInt(2)), WideSub(T.MACD[i], T.Signal[i - 1])))
            /\ WideEq(WideAdd(T.Histogram[i], T.Signal[i]), T.MACD[i])
            /\ T.MACD_BuySignal[i] <=> (i > 1 /\ MacdAbove(i) /\ ~MacdAbove(i - 1))
            /\ T.MACD_SellSignal[i] <=> (i > 1 /\ MacdBelow(i) /\ ~MacdBelow(i - 1))
            /\ i = 1 => ~T.MACD_BuySignal[i] /\ ~T.MACD_SellSignal[i]

\* a series on which the MACD line crosses its signal line upwards and
\* downwards, with a histogram that is not zero
C6_Witness ==
    /\ HasIndicators
    /\ \E i \in 1..N : T.MACD_BuySignal[i]
    /\ \E i \in 1..N : T.MACD_SellSignal[i]
    /\ \E i \in 1..N : T.Histogram[i].n # << >>

\* the day-over-day change of the close on bar i (i > 1)
Change(i) == Close[i] - Close[i - 1]

\* bar i closes a window of rsi_window day-over-day changes
FullWindow(i) == i \in (rsi_window + 1)..N

NoLossIn(i) == \A j \in (i - rsi_window + 1)..i : Change(j) >= 0

\* C7, as claimed: on every bar with a full RSI window whose average loss is
\* exactly 0, RSI is 100, also when the average gain is 0 as well.
C7_SaturatedAtZeroLoss ==
    HasIndicators =>
        \A i \in 1..N :
            (FullWindow(i) /\ NoLossIn(i)) => FEq(T.RSI[i], Hundred)

\* C8, as claimed: RSI is undefined on the first rsi_window bars.
C8_UndefinedFirstWindow ==
    HasIndicators =>
        \A i \in 1..N : i <= rsi_window => IsNaN(T.RSI[i])

Increasing == \A i \in 2..N : Close[i] > Close[i - 1]

\* C9: every defined RSI lies in [0, 100]; on a strictly increasing series
\* longer than the window every defined RSI is 100; the divisions by a zero
\* average loss raise nothing and leave a finite value or NaN.
C9_RSIBounded ==
    HasIndicators =>
        \A i \in 1..N :
            /\ T.RSI[i].k \in {"fin", "nan"}
            /\ Defined(T.RSI[i]) =>
                    /\ 0 <= T.RSI[i].n /\ T.RSI[i].n <= 100 * T.RSI[i].d
                    /\ (Increasing /\ N > rsi_window) => FEq(T.RSI[i], Hundred)

\* a strictly increasing series longer than the window, RSI 100 on its last bar
C9_Witness ==
    /\ HasIndicators
    /\ Increasing /\ N > rsi_window
    /\ FEq(T.RSI[N], Hundred)

\* some series has an RSI strictly between 0 and 100
RSIInside == HasIndicators /\ \E i \in 1..N : Defined(T.RSI[i]) /\ 0 < T.RSI[i].n /\ T.RSI[i].n < 100 * T.RSI[i].d

(***************************************************************************)
(* Claims about the loader and the daily aggregation, checked under        *)
(* SpecLoad.                                                               *)
(***************************************************************************)
\* the first read of the file has returned
LoadReturned ==
    /\ "data" \in names
    /\ "no_file" \notin out /\ "sample_missing" \notin out
    /\ enc.tried = << >>

\* the first read has returned and its codec raised nowhere, so that
\* read_csv parsed a table
TableParsed == LoadReturned /\ Decodes(raw, FirstEncoding)

\* C11: load_data returns None with an error message, never a partial table,
\* when the parsed table has fewer than 14 columns; with exactly 14 columns
\* it returns a table with as many rows as the input and the 14 field names
\* in order, whatever the date and number cells hold.
C11_LoadFailure ==
    TableParsed =>
        /\ raw.ncols < 14 =>
                /\ data = None
                /\ "load_error" \in out
        /\ raw.ncols = 14 =>
                /\ data.loaded
                /\ "load_error" \notin out
                /\ Len(data.rows) = Len(raw.rows)
                /\ data.columns = << "Date", "Name", "Code", "Market", "Type", "Period",
                                     "Account", "TaxCategory", "Quantity", "UnitPrice",
                                     "Fee", "Tax", "SettlementDate", "SettlementAmount" >>
                /\ \A r \in 1..Len(data.rows) :
                      DOMAIN data.rows[r] = { data.columns[j] : j \in 1..14 }

\* a 14-column file with a date and a number that cannot be parsed is loaded
\* with nulls in their place
C11_Witness ==
    /\ TableParsed
    /\ raw.ncols = 14
    /\ data.loaded
    /\ \E r \in 1..Len(data.rows) :
          /\ data.rows[r].Date = Null
          /\ data.rows[r].Quantity = Null

\* a file with too few columns was refused
ShortFileRefused == TableParsed /\ raw.ncols < 14 /\ Len(raw.rows) > 0 /\ data = None

Aggregated == "daily_trade" \in names /\ daily_trade.loaded

\* the rows of the aggregated table with a date and a transaction type
RowsOn(d, type) ==
    { r \in 1..Len(daily_trade.rows) :
        /\ daily_trade.rows[r].Date.t = "date"
        /\ daily_trade.rows[r].Date.n = d
        /\ daily_trade.rows[r].Type.s = type }

\* the settlement amount of a row, nothing for a null
Settlement(r) ==
    IF daily_trade.rows[r].SettlementAmount.t = "num"
    THEN daily_trade.rows[r].SettlementAmount.n
    ELSE 0

TradeDates ==
    { daily_trade.rows[r].Date.n :
        r \in { q \in 1..Len(daily_trade.rows) : daily_trade.rows[q].Date.t = "date" } }

\* the series holds exactly the dates with a row of the type, each with the
\* sum of the settlement amounts of those rows
SeriesIsSum(series, type) ==
    /\ DOMAIN series = { d \in TradeDates : RowsOn(d, type) # {} }
    /\ \A d \in DOMAIN series :
          series[d] = SetSum([r \in RowsOn(d, type) |-> Settlement(r)], RowsOn(d, type))

Permuted(rows, p) == [i \in 1..Len(rows) |-> rows[p[i]]]

DistinctDates(g) == \A i, j \in 1..Len(g) : g[i].Date = g[j].Date => i = j

\* C12: for every day the buy series is the sum of the settlement amounts of
\* exactly the rows of that date and type buy, the sell series the same for
\* sell; rows of another type or with a null date are in neither; every
\* permutation of the rows gives the same series, and a date appears at most
\* once in each.
C12_DailyAggregation ==
    Aggregated =>
        /\ SeriesIsSum(buy_daily, BuyType)
        /\ SeriesIsSum(sell_daily, SellType)
        /\ \A p \in Permutations(1..Len(daily_trade.rows)) :
              /\ DailySeries(Permuted(daily_trade.rows, p), BuyType) = buy_daily
              /\ DailySeries(Permuted(daily_trade.rows, p), SellType) = sell_daily
        /\ DistinctDates(GroupSums(daily_trade.rows, BuyType, Len(daily_trade.rows)))
        /\ DistinctDates(GroupSums(daily_trade.rows, SellType, Len(daily_trade.rows)))

\* two buys of one day are summed into one entry of the buy series
C12_Witness ==
    /\ Aggregated
    /\ Len(daily_trade.rows) = 2
    /\ \E d \in DOMAIN buy_daily :
          /\ RowsOn(d, BuyType) = {1, 2}
          /\ buy_daily[d] = 14
    /\ sell_daily = << >>

\* a buy and a sell of different days, each in its own series
BuyAndSell ==
    /\ Aggregated
    /\ \E d1 \in DOMAIN buy_daily, d2 \in DOMAIN sell_daily : d1 # d2 /\ buy_daily[d1] = 7

(***************************************************************************)
(* Further claims about the signals, checked under SpecInd.                *)
(***************************************************************************)
FlatDay(i) == i > 1 /\ Close[i] = Close[i - 1]

\* C17, as claimed: on a day whose close equals the previous close neither
\* the MA buy signal nor the MA sell signal fires.
C17_FlatDayNoCrossover ==
    HasTrend =>
        \A i \in 1..N : FlatDay(i) => ~T.BuySignal[i] /\ ~T.SellSignal[i]

\* both averages are known on day i and the day before and did not move
AveragesUnchanged(i) ==
    /\ MAKnown(i)
    /\ Same(T.MA_short[i], T.MA_short[i - 1])
    /\ Same(T.MA_medium[i], T.MA_medium[i - 1])

\* C17, amended: on a day on which neither moving average changed from the
\* previous day neither the MA buy signal nor the MA sell signal fires,
\* wherever the two averages stand to each other.
C17_UnchangedAveragesNoCrossover ==
    HasTrend =>
        \A i \in 1..N : AveragesUnchanged(i) => ~T.BuySignal[i] /\ ~T.SellSignal[i]

\* a day on which both averages stayed where they were, the short one
\* away from the medium one, though the close moved
C17_Witness ==
    /\ HasTrend
    /\ \E i \in 1..N :
          /\ AveragesUnchanged(i)
          /\ ~Same(T.MA_short[i], T.MA_medium[i])
          /\ ~FlatDay(i)
          /\ ~T.BuySignal[i] /\ ~T.SellSignal[i]

\* C19: on no day do the buy and the sell signal of one family fire
\* together, for MA, RSI and MACD, and so the strong buy and the strong sell
\* signal never fire on the same day.
C19_BuySellExclusive ==
    HasIndicators =>
        \A i \in 1..N :
            /\ ~(T.BuySignal[i] /\ T.SellSignal[i])
            /\ ~(T.RSI_BuySignal[i] /\ T.RSI_SellSignal[i])
            /\ ~(T.MACD_BuySignal[i] /\ T.MACD_SellSignal[i])
            /\ ~(T.StrongBuySignal[i] /\ T.StrongSellSignal[i])

\* a day with a strong buy signal and no strong sell signal, and a sell
\* signal of some family in the same series
C19_Witness ==
    /\ HasIndicators
    /\ \E i \in 1..N : T.StrongBuySignal[i] /\ ~T.StrongSellSignal[i]
    /\ \E i \in 1..N : T.SellSignal[i] \/ T.RSI_SellSignal[i] \/ T.MACD_SellSignal[i]

\* a strong sell signal is reachable as well
StrongSellSeen == HasIndicators /\ \E i \in 1..N : T.StrongSellSignal[i]

\* a day on which one family says buy and another says sell
FamiliesDisagree ==
    /\ HasIndicators
    /\ \E i \in 1..N :
          /\ T.BuySignal[i] \/ T.RSI_BuySignal[i] \/ T.MACD_BuySignal[i]
          /\ T.SellSignal[i] \/ T.RSI_SellSignal[i] \/ T.MACD_SellSignal[i]

(***************************************************************************)
(* Claims about the whole run.                                             *)
(***************************************************************************)
\* the encodings of the fixed order other than the selected one
Remaining(option) ==
    LET Other(e) == e # option
    IN  SelectSeq(encodings, Other)

Attempted == [k \in 1..Len(enc.tried) |-> enc.tried[k].enc]

AllFailed ==
    /\ Len(enc.tried) = Len(Remaining(enc.option))
    /\ \A k \in 1..Len(enc.tried) : ~enc.tried[k].ok

\* C18: after a failed first load and the auto-detect button, the encodings
\* attempted so far are the leading ones of utf-8, shift_jis, cp932, euc_jp,
\* latin1 with the selected encoding left out, in that order; only the last
\* attempt can have succeeded, and after a success the loop is over and the
\* table it returned is the one kept; while the loop runs, and when every
\* attempt has failed, data is None and the main section has not started.
C18_EncodingRecovery ==
    /\ Len(enc.tried) <= Len(Remaining(enc.option))
    /\ Attempted = SubSeq(Remaining(enc.option), 1, Len(enc.tried))
    /\ \A k \in 1..Len(enc.tried) : enc.tried[k].enc # enc.option
    /\ \A k \in 1..Len(enc.tried) : enc.tried[k].ok => k = Len(enc.tried)
    /\ \A k \in 1..Len(enc.tried) :
          enc.tried[k].ok =>
              /\ pc # "loop"
              /\ data.loaded
              /\ \E p \in 0..Len(raw.rows) :
                    /\ Decodes(Unread(raw, p), enc.tried[k].enc)
                    /\ data = load_data(Decoded(Unread(raw, p), enc.tried[k].enc))
    /\ enc.tried # << >> => enc.pressed
    /\ pc = "loop" => ~data.loaded
    /\ AllFailed => data = None /\ "loaded" \notin out

\* the first attempts failed, a later one succeeded, the selected encoding
\* was passed over on the way and an encoding after the successful one was
\* left unattempted
C18_Witness ==
    /\ Len(enc.tried) >= 2
    /\ ~enc.tried[1].ok
    /\ enc.tried[Len(enc.tried)].ok
    /\ \E k \in 1..(enc.i - 1) : encodings[k] = enc.option
    /\ enc.i <= Len(encodings)
    /\ "loaded" \in out

\* every other encoding was attempted and failed, and the run went on
EveryEncodingFailed == AllFailed /\ pc \notin {"loop", "main"}

\* the table was loaded and none of its rows carries a date
NoValidDate ==
    /\ data.loaded
    /\ \A r \in 1..Len(data.rows) : data.rows[r].Date.t # "date"

PastDateGuard == pc \notin {"start", "button", "loop", "main", "dates"}

\* C13: in a run whose trade table has no valid trade date the benchmark is
\* never requested and nothing of the comparison (benchmark table, join,
\* trend table, signal matching) is computed, and once the date guard has
\* been passed the warning is on the page; a benchmark request is only ever
\* made with min_date and max_date bound and a dated row in the table.
C13_NoDateNoBenchmark ==
    /\ NoValidDate =>
          /\ "benchmark_requested" \notin out
          /\ names \cap {"nikkei", "merged_df", "nikkei_sorted", "signal_window"} = {}
          /\ MatchIdle
          /\ nikkei_sorted = NoTable
          /\ "match_rates" \notin out
          /\ PastDateGuard => "date_warning" \in out
    /\ "benchmark_requested" \in out =>
          /\ {"min_date", "max_date"} \subseteq names
          /\ data.loaded
          /\ \E r \in 1..Len(data.rows) : data.rows[r].Date.t = "date"

\* a loaded table without a dated row has passed the date guard
C13_Witness ==
    /\ NoValidDate
    /\ Len(data.rows) > 0
    /\ PastDateGuard
    /\ "date_warning" \in out

\* the benchmark was requested for a table with dated rows
BenchmarkRequested == "benchmark_requested" \in out /\ pc = "aggregate"

\* an upstream input is missing: no table, no date range, or the guarded
\* block ended in its handler
UpstreamMissing ==
    \/ "data" \in names /\ ~data.loaded /\ pc \notin {"button", "loop", "main"}
    \/ "date_warning" \in out
    \/ "analysis_error" \in out

\* C14: a run with an upstream input missing ends without an uncaught
\* error, and the top-level RSI, MACD and strong-signal code is entered only
\* with nikkei_sorted, merged_df and signal_window bound.
C14_GracefulDegradation ==
    /\ UpstreamMissing => "uncaught_error" \notin out /\ pc # "crashed"
    /\ pc = "toplevel" => {"nikkei_sorted", "merged_df", "signal_window"} \subseteq names

\* no table was loaded and the run ended in the NameError of line 670
NoDataCrash == ~data.loaded /\ pc = "crashed" /\ "nikkei_sorted" \notin names

\* the benchmark call raised, the handler ran, and the run still ended in
\* the NameError of line 670
DownloadFailedCrash ==
    /\ "analysis_error" \in out
    /\ "nikkei" \notin names
    /\ pc = "crashed"

RisingDates == { BenchmarkDates[i] : i \in { j \in 2..Len(Close) : Close[j] > Close[j - 1] } }
FallingDates == { BenchmarkDates[i] : i \in { j \in 2..Len(Close) : Close[j] < Close[j - 1] } }

OnDays(column, days) ==
    SumWhere(merged_df, column,
             [r \in 1..Len(merged_df) |-> merged_df[r].Date \in days], Len(merged_df))

MarketTableRead == "match_rates" \in out /\ pc # "market"

\* C15: by the time the market-condition table has read them, buy_on_up,
\* buy_on_down, sell_on_up and sell_on_down are bound to the buy and sell
\* notional summed over the rising days (close above the previous bar's
\* close) and over the falling days (close below it); a first bar and an
\* unchanged close are in neither.
C15_RegimeSums ==
    MarketTableRead =>
        /\ regime.bound
        /\ {"buy_on_up", "buy_on_down", "sell_on_up", "sell_on_down"} \subseteq names
        /\ regime.buy_on_up = OnDays("BuyAmount", RisingDates)
        /\ regime.buy_on_down = OnDays("BuyAmount", FallingDates)
        /\ regime.sell_on_up = OnDays("SellAmount", RisingDates)
        /\ regime.sell_on_down = OnDays("SellAmount", FallingDates)

\* the market table was reached with a buy on a rising day to be summed
RegimeSumsNeeded ==
    /\ MarketTableRead
    /\ OnDays("BuyAmount", RisingDates) + OnDays("SellAmount", RisingDates) > 0
    /\ ~regime.bound
    /\ "analysis_error" \in out

(***************************************************************************)
(* Claims about the efficiency score, checked under SpecRun.  The regime   *)
(* sums are the notional of the joined table on the rising and on the      *)
(* falling days, as the specification defines them.                        *)
(***************************************************************************)
\* the guarded block has been left, through its end or through its handler
BlockDone == MarketTableRead /\ pc # "except"

BuyOnRising == OnDays("BuyAmount", RisingDates)
BuyOnFalling == OnDays("BuyAmount", FallingDates)
SellOnRising == OnDays("SellAmount", RisingDates)
SellOnFalling == OnDays("SellAmount", FallingDates)

TotalBuy == BuyOnRising + BuyOnFalling
TotalSell == SellOnRising + SellOnFalling
GuardHolds == TotalBuy > 0 /\ TotalSell > 0

\* optimal_ratio and actual_ratio times total_buy * total_sell
OptimalPart == BuyOnFalling * SellOnRising
ActualPart == BuyOnRising * SellOnFalling

\* x = 1 - actual_ratio / (optimal_ratio + actual_ratio), a number
IsEfficiency(x) ==
    /\ x.k = "fin"
    /\ OptimalPart + ActualPart # 0
    /\ (IF x.neg THEN 0 - x.n ELSE x.n) * (OptimalPart + ActualPart) = x.d * OptimalPart

\* C16, as claimed: with total_buy > 0 and total_sell > 0 the score produced
\* is 1 - actual_ratio/(optimal_ratio + actual_ratio); with total_buy <= 0 or
\* total_sell <= 0 no score is produced, neither zero nor an error; with all
\* buys on falling days and all sells on rising days the score is above 50%.
C16_EfficiencyScore ==
    BlockDone =>
        /\ GuardHolds =>
                /\ efficiency.k = "score"
                /\ "efficiency_metric" \in out
                /\ IsEfficiency(efficiency.v)
        /\ ~GuardHolds =>
                /\ efficiency = NoScore
                /\ "efficiency_metric" \notin out
                /\ "analysis_error" \notin out
        /\ (GuardHolds /\ BuyOnRising = 0 /\ SellOnFalling = 0) =>
                /\ efficiency.k = "score"
                /\ FGt(efficiency.v, Fin(1, 2))

\* a buy on a falling day and a sell on a rising day only, the block has
\* been left and there is no score
FallingBuyRisingSellUnscored ==
    /\ BlockDone /\ GuardHolds
    /\ BuyOnRising = 0 /\ SellOnFalling = 0
    /\ efficiency = NoScore
    /\ "analysis_error" \in out

\* C20, as claimed: for all non-negative regime sums with total_buy > 0 and
\* total_sell > 0, optimal_ratio + actual_ratio is not zero, the division
\* does not fail, and the efficiency lies in [0, 1].
C20_EfficiencyWellDefined ==
    BlockDone =>
        (GuardHolds =>
            /\ OptimalPart + ActualPart # 0
            /\ efficiency.k = "score"
            /\ "analysis_error" \notin out
            /\ efficiency.v.k = "fin"
            /\ FGe(efficiency.v, FromInt(0))
            /\ FLe(efficiency.v, FromInt(1)))

\* all buys and all sells on rising days: the guard holds and
\* optimal_ratio + actual_ratio is zero
GuardWithZeroDenominator ==
    /\ BlockDone /\ GuardHolds
    /\ BuyOnFalling = 0 /\ SellOnFalling = 0
    /\ OptimalPart + ActualPart = 0

====
